---- MODULE Spec2Model ----
(***************************************************************************)
(* A model of the workbook pipeline of kanaka-data-project:               *)
(* src/src/datacore/df_manager.py (DataFrameManager) and the helpers it   *)
(* calls.  Python strings are sequences of one-character strings, so that *)
(* substring tests, splitting and case conversion are computed and not    *)
(* assumed.  A DataFrame is a record of its column labels and its rows; a *)
(* cell is missing (NaN), a string or a non-negative integer.             *)
(***************************************************************************)
EXTENDS Integers, Sequences, FiniteSets, TLC

VARIABLES
    store,      \* the DataFrameManager (a dict): sequence of [key, entry], in insertion order
    last,       \* the last call on the manager: its arguments, the dict before it, what it raised
    nloads,     \* number of load calls made so far
    call,       \* a call of a pure function (its arguments), for the specifications of pure functions
    ret,        \* what that call returned or raised
    entry,      \* a DataFrameEntry object on its own, for the specifications of the entry classes
    clock,      \* what datetime.now() returns
    names_cache, \* the manager's cached dataframe_names, once it has been read
    graph       \* a run of the SQL agent graph: the node to run next and the messages so far

\* the variables of the specifications of single objects
objects == <<entry, clock, names_cache, graph>>

vars == <<store, last, nloads, call, ret, objects>>

(***************************************************************************)
(* Bounds of the model.                                                    *)
(***************************************************************************)
\* load_from_url / load_from_excel calls made on one manager
MaxLoads == 2
\* length of the list of sheet keys handed to find_titles_sheet_name
MaxKeys == 3
\* rows of a table handed to extract_metadata
MaxRows == 2
\* lines of a set handed to categorize_metadata
MaxLines == 3
\* pieces a title handed to extract_years_from_string is put together from
MaxParts == 3
\* pattern keys handed to clean_string_with_named_patterns in one call
MaxPatterns == 2
\* pieces (words, delimiters, characters) a column name is made of
MaxNameParts == 3
\* columns of a table handed to format_column_names
MaxCols == 3
\* the largest N of an index row "Table N"
MaxTableNo == 99
\* rows of an index sheet handed to extract_table_names
MaxIndexRows == 4

(***************************************************************************)
(* String literals, as character sequences.                                *)
(***************************************************************************)
s_Titles == <<"T", "i", "t", "l", "e", "s">>
s_titles == <<"t", "i", "t", "l", "e", "s">>
s_TITLES == <<"T", "I", "T", "L", "E", "S">>
s_Title == <<"T", "i", "t", "l", "e">>
s_title == <<"t", "i", "t", "l", "e">>
s_Title_Index == <<"T", "i", "t", "l", "e", " ", "I", "n", "d", "e", "x">>
s_Table == <<"T", "a", "b", "l", "e">>
s_Introduction == <<"I", "n", "t", "r", "o", "d", "u", "c", "t", "i", "o", "n">>
s_0 == <<"0">>
s_01 == <<"0", "1">>
s_02 == <<"0", "2">>
s_01_01 == <<"0", "1", ".", "0", "1">>
s_01_02 == <<"0", "1", ".", "0", "2">>
s_01_03 == <<"0", "1", ".", "0", "3">>
s_POP_01 == <<"P", "O", "P", "-", "0", "1">>
s_POP_nb_01 == <<"P", "O", "P", "U+2011", "0", "1">>
s_Table_1 == <<"T", "a", "b", "l", "e", " ", "1">>
s_Table_2 == <<"T", "a", "b", "l", "e", " ", "2">>
s_Table_1_01 == <<"T", "a", "b", "l", "e", " ", "1", ".", "0", "1">>
s_Table_1_02 == <<"T", "a", "b", "l", "e", " ", "1", ".", "0", "2">>
s_Population_by_Island == <<"P", "o", "p", "u", "l", "a", "t", "i", "o", "n", " ", "b", "y", " ", "I", "s", "l", "a", "n", "d">>
s_Housing_Units == <<"H", "o", "u", "s", "i", "n", "g", " ", "U", "n", "i", "t", "s">>
s_Housing_nb_Units == <<"H", "o", "u", "s", "i", "n", "g", "U+2011", "U", "n", "i", "t", "s">>
s_Housing_hy_Units == <<"H", "o", "u", "s", "i", "n", "g", "-", "U", "n", "i", "t", "s">>
s_OHA_Data_Book == <<"O", "H", "A", " ", "D", "a", "t", "a", " ", "B", "o", "o", "k">>
s_Unnamed_1 == <<"U", "n", "n", "a", "m", "e", "d", ":", " ", "1">>
s_About == <<"A", "b", "o", "u", "t">>
s_Island == <<"I", "s", "l", "a", "n", "d">>
s_Total == <<"T", "o", "t", "a", "l">>
s_Oahu == <<"O", "a", "h", "u">>
s_Maui == <<"M", "a", "u", "i">>
s_Year == <<"Y", "e", "a", "r">>
s_Source_Census == <<"S", "o", "u", "r", "c", "e", ":", " ", "C", "e", "n", "s", "u", "s">>
s_POP == <<"P", "O", "P">>
s_INC == <<"I", "N", "C">>
s_HOU == <<"H", "O", "U">>
s_EMP == <<"E", "M", "P">>
s_LND == <<"L", "N", "D">>
s_HTH == <<"H", "T", "H">>
s_EDU == <<"E", "D", "U">>
s_Population == <<"P", "o", "p", "u", "l", "a", "t", "i", "o", "n">>
s_Income == <<"I", "n", "c", "o", "m", "e">>
s_Housing == <<"H", "o", "u", "s", "i", "n", "g">>
s_Employment == <<"E", "m", "p", "l", "o", "y", "m", "e", "n", "t">>
s_Environment == <<"E", "n", "v", "i", "r", "o", "n", "m", "e", "n", "t">>
s_Health == <<"H", "e", "a", "l", "t", "h">>
s_Education == <<"E", "d", "u", "c", "a", "t", "i", "o", "n">>
s_source == <<"s", "o", "u", "r", "c", "e">>
s_Source_Census_Bureau == <<"S", "o", "u", "r", "c", "e", ":", " ", "C", "e", "n", "s", "u", "s", " ", "B", "u", "r", "e", "a", "u">>
s_Census_Bureau == <<"C", "e", "n", "s", "u", "s", " ", "B", "u", "r", "e", "a", "u">>
s_Source_A == <<"S", "o", "u", "r", "c", "e", ":", " ", "A">>
s_Source_B == <<"S", "o", "u", "r", "c", "e", ":", " ", "B">>
s_SOURCE_A_nocolon == <<"S", "O", "U", "R", "C", "E", " ", "A">>
s_source_a_b == <<"s", "o", "u", "r", "c", "e", ":", " ", "a", ":", " ", "b">>
s_a_b == <<"a", ":", " ", "b">>
s_Note_x == <<"N", "o", "t", "e", ":", " ", "x">>
s_Resource == <<"R", "e", "s", "o", "u", "r", "c", "e">>
s_A == <<"A">>
s_B == <<"B">>
s_Population_2006 == <<"P", "o", "p", "u", "l", "a", "t", "i", "o", "n", " ", "2", "0", "0", "6">>
s_Housing_2006_2010 == <<"H", "o", "u", "s", "i", "n", "g", ":", " ", "2", "0", "0", "6", "-", "2", "0", "1", "0">>
s_Income_mixed == <<"I", "n", "c", "o", "m", "e", " ", "2", "0", "0", "6", ",", " ", "2", "0", "0", "8", "-", "2", "0", "1", "0", ",", " ", "2", "0", "1", "2">>
s_2006_2010_2012 == <<"2", "0", "0", "6", "-", "2", "0", "1", "0", "-", "2", "0", "1", "2">>
s_2006_2006 == <<"2", "0", "0", "6", ",", " ", "2", "0", "0", "6">>
s_2006 == <<"2", "0", "0", "6">>
s_2010 == <<"2", "0", "1", "0">>
Digits == <<"0", "1", "2", "3", "4", "5", "6", "7", "8", "9">>
s_Hawaii_okina == <<"H", "a", "w", "a", "i", "U+2018", "i">>
s_Oahus == <<"O", "'", "a", "h", "u", "'", "s">>
s_bullet_note == <<" ", "*", " ", "n", "o", "t", "e", "\n", "m", "o", "r", "e">>
s_nbsp_dots == <<"a", "NBSP", "b", ".", " ", "c">>
s_State_of == <<"S", "t", "a", "t", "e", " ", "o", "f", " ", "H", "a", "w", "a", "i", "'", "i", " ", "(", "2", "0", "1", "0", ")", ",", " ", "t", "o", "t", "a", "l", " ", "/", " ", "p", "a", "r", "t">>
s_POP_star == <<"P", "O", "P", "U+2011", "0", "1", " ", "*">>
s_tate == <<"t", "a", "t", "e">>
s_space_of == <<" ", "o", "f">>
s__or_ == <<"_", "o", "r", "_">>
s_census == <<"c", "e", "n", "s", "u", "s">>
s_estimates == <<"e", "s", "t", "i", "m", "a", "t", "e", "s">>
s_percent == <<"p", "e", "r", "c", "e", "n", "t">>
s_populationa == <<"p", "o", "p", "u", "l", "a", "t", "i", "o", "n", "a">>
s_populationb == <<"p", "o", "p", "u", "l", "a", "t", "i", "o", "n", "b">>
s_population == <<"p", "o", "p", "u", "l", "a", "t", "i", "o", "n">>
s_hawaiiana == <<"h", "a", "w", "a", "i", "i", "a", "n", "a">>
s_hawaiianb == <<"h", "a", "w", "a", "i", "i", "a", "n", "b">>
s_hawaiian == <<"h", "a", "w", "a", "i", "i", "a", "n">>
s_total == <<"t", "o", "t", "a", "l">>
s_Unnamed == <<"U", "n", "n", "a", "m", "e", "d">>
s_nan == <<"n", "a", "n">>
s_x == <<"x">>
s_Census_x == <<"C", "e", "n", "s", "u", "s", " ", "x">>
s_B_y == <<"B", ".", " ", "y">>
s_Hawaii == <<"H", "a", "w", "a", "i", "i">>
s_Hawaii_apostrophe == <<"H", "a", "w", "a", "i", "'", "i">>
s_Hawaii_mojibake == <<"H", "a", "w", "a", "i", "U+221A", "U+00F8", "i">>
s_Hawaii_Income == <<"H", "a", "w", "a", "i", "'", "i", " ", "I", "n", "c", "o", "m", "e">>
Upper == <<"A", "B", "C", "D", "E", "F", "G", "H", "I", "J", "K", "L", "M", "N", "O", "P", "Q", "R", "S", "T", "U", "V", "W", "X", "Y", "Z">>
Lowercase == <<"a", "b", "c", "d", "e", "f", "g", "h", "i", "j", "k", "l", "m", "n", "o", "p", "q", "r", "s", "t", "u", "v", "w", "x", "y", "z">>

(***************************************************************************)
(* Python's str operations.                                                *)
(***************************************************************************)
IsUpper(c) == \E i \in 1..Len(Upper) : Upper[i] = c

\* str.lower() on one character
LowerChar(c) ==
    IF IsUpper(c) THEN Lowercase[CHOOSE i \in 1..Len(Upper) : Upper[i] = c] ELSE c

\* str.lower()
Lower(s) == [i \in 1..Len(s) |-> LowerChar(s[i])]

\* `sub in s` for two strings
Contains(s, sub) ==
    \E i \in 0..(Len(s) - Len(sub)) : SubSeq(s, i + 1, i + Len(sub)) = sub

\* s.split(" ")[-1]: what follows the last space (all of s when it has none)
SplitSpaceLast(s) ==
    LET spaces == {i \in 1..Len(s) : s[i] = " "}
        from == IF spaces = {} THEN 1
                ELSE 1 + CHOOSE i \in spaces : \A j \in spaces : j <= i
    IN  SubSeq(s, from, Len(s))

IsLower(c) == \E i \in 1..Len(Lowercase) : Lowercase[i] = c

\* the classes \d and \w of re, over the characters of the model
IsDigit(c) == \E i \in 1..Len(Digits) : Digits[i] = c
IsWordChar(c) == IsDigit(c) \/ IsUpper(c) \/ IsLower(c) \/ c = "_" \/ c = "U+00FF"

\* int() of one digit
DigitVal(c) == (CHOOSE i \in 1..Len(Digits) : Digits[i] = c) - 1

\* \b at the gap before s[i], for i in 1..Len(s)+1
WordBoundary(s, i) ==
    (i > 1 /\ IsWordChar(s[i - 1])) # (i <= Len(s) /\ IsWordChar(s[i]))

\* str.isspace() on one character; NBSP stands for U+00A0
IsSpace(c) == c \in {" ", "\t", "\n", "NBSP"}

\* \s* from s[i]: the position after the run of whitespace
AfterSpaces(s, i) ==
    CHOOSE j \in i..(Len(s) + 1) :
        /\ \A k \in i..(j - 1) : IsSpace(s[k])
        /\ j <= Len(s) => ~IsSpace(s[j])

\* str.strip()
Strip(s) ==
    LET keep == {i \in 1..Len(s) : ~IsSpace(s[i])}
    IN  IF keep = {} THEN <<>>
        ELSE SubSeq(s, CHOOSE i \in keep : \A j \in keep : i <= j,
                       CHOOSE i \in keep : \A j \in keep : j <= i)

\* str.startswith(prefix)
StartsWith(s, prefix) ==
    Len(s) >= Len(prefix) /\ SubSeq(s, 1, Len(prefix)) = prefix

\* s.rsplit(sep, 1)[-1] for a one-character sep: what follows the last sep
RSplitOnceLast(s, sep) ==
    LET hits == {i \in 1..Len(s) : s[i] = sep}
    IN  IF hits = {} THEN s
        ELSE SubSeq(s, 1 + CHOOSE i \in hits : \A j \in hits : j <= i, Len(s))

\* s.split(sep, 1)[-1] for a one-character sep: what follows the first sep,
\* and all of s when it has none
SplitOnceLast(s, sep) ==
    LET hits == {i \in 1..Len(s) : s[i] = sep}
    IN  IF hits = {} THEN s
        ELSE SubSeq(s, 1 + CHOOSE i \in hits : \A j \in hits : i <= j, Len(s))

\* seq[start:] for a Python slice start, which may be negative or past the end
PySliceFrom(seq, start) ==
    LET n == Len(seq)
        from == IF start < 0 THEN (IF n + start < 0 THEN 0 ELSE n + start)
                ELSE (IF start > n THEN n ELSE start)
    IN  SubSeq(seq, from + 1, n)

(***************************************************************************)
(* Values: a cell of a DataFrame, a dict key, a name.  One record shape    *)
(* for all of them, so that any two values can be compared.                *)
(***************************************************************************)
Str(s) == [t |-> "str", s |-> s, n |-> 0]
Num(n) == [t |-> "num", s |-> <<>>, n |-> n]
NaN == [t |-> "nan", s |-> <<>>, n |-> 0]
None == [t |-> "none", s |-> <<>>, n |-> 0]

\* Python truthiness of a value
Truthy(v) ==
    CASE v.t = "str" -> v.s # <<>>
      [] v.t = "num" -> v.n # 0
      [] v.t = "nan" -> TRUE
      [] OTHER -> FALSE

\* the outcome of a call: what it returned, or the exception it raised
Return(v) == [exc |-> "", val |-> v]
Raise(e) == [exc |-> e, val |-> None]
NoRet == [exc |-> "pending", val |-> None]

(***************************************************************************)
(* Keyword arguments of a load: the kwargs dict of df_manager.py.          *)
(***************************************************************************)
\* the defaults: no titles_sheet_name key, drop_title_sheet False,
\* title_sheet_type "normal", no cleaning patterns
DefaultKwargs ==
    [has_titles_sheet_name |-> FALSE, titles_sheet_name |-> None,
     drop_title_sheet |-> FALSE, title_sheet_type |-> "normal",
     title_cleaning_patterns |-> <<>>]

(***************************************************************************)
(* DataFrameManager.find_titles_sheet_name                                 *)
(***************************************************************************)
\* the test of the loop: "Titles" in key or "Title" in key
MatchesTitleHeuristic(key) == Contains(key, s_Titles) \/ Contains(key, s_Title)

\* the test with the override looked at only after the heuristic has failed
find_titles_sheet_name_heuristic_first(df_dict_keys, kwargs) ==
    LET hits == {i \in 1..Len(df_dict_keys) : MatchesTitleHeuristic(df_dict_keys[i])}
    IN  IF hits # {}
        THEN Return(Str(df_dict_keys[CHOOSE i \in hits : \A j \in hits : i <= j]))
        ELSE IF kwargs.has_titles_sheet_name THEN Return(kwargs.titles_sheet_name)
        ELSE Raise("KeyError")

\* the first key taken as the index sheet when no key matches, in place
\* of the KeyError
find_titles_sheet_name_first_sheet_fallback(df_dict_keys, kwargs) ==
    LET hits == {i \in 1..Len(df_dict_keys) : MatchesTitleHeuristic(df_dict_keys[i])}
    IN  IF kwargs.has_titles_sheet_name THEN Return(kwargs.titles_sheet_name)
        ELSE IF hits # {}
        THEN Return(Str(df_dict_keys[CHOOSE i \in hits : \A j \in hits : i <= j]))
        ELSE IF df_dict_keys # <<>> THEN Return(Str(df_dict_keys[1]))
        ELSE Raise("KeyError")

find_titles_sheet_name(df_dict_keys, kwargs) ==
    LET hits == {i \in 1..Len(df_dict_keys) : MatchesTitleHeuristic(df_dict_keys[i])}
    IN  IF kwargs.has_titles_sheet_name THEN Return(kwargs.titles_sheet_name)
        ELSE IF hits # {}
        THEN Return(Str(df_dict_keys[CHOOSE i \in hits : \A j \in hits : i <= j]))
        ELSE Raise("KeyError")

(***************************************************************************)
(* constants/mappings.py and clean_string_with_named_patterns              *)
(***************************************************************************)
\* the keys of PATTERN_MAP
PATTERN_MAP_KEYS ==
    {"glottal_stop", "whitespace", "bullet", "newline", "non_breaking_space",
     "hyphens", "asterisk", "remove_state", "slash", "parentheses", "comma",
     "apostrophe"}

\* THEME_MAP, as (code, theme) pairs
THEME_MAP ==
    <<<<s_POP, s_Population>>, <<s_INC, s_Income>>, <<s_HOU, s_Housing>>,
      <<s_EMP, s_Employment>>, <<s_LND, s_Environment>>, <<s_HTH, s_Health>>,
      <<s_EDU, s_Education>>>>

\* THEME_MAP.get(code, None), for a code that is a string or None
ThemeMapGet(code) ==
    IF code.t = "str" /\ \E i \in 1..Len(THEME_MAP) : THEME_MAP[i][1] = code.s
    THEN Str(THEME_MAP[CHOOSE i \in 1..Len(THEME_MAP) : THEME_MAP[i][1] = code.s][2])
    ELSE None

\* the replacement of the rule PATTERN_MAP[key]
PatternReplacement(key) ==
    CASE key = "whitespace" -> <<"_">>
      [] key = "newline" -> <<";", " ">>
      [] key = "non_breaking_space" -> <<" ">>
      [] key = "hyphens" -> <<"-">>
      [] key = "slash" -> s__or_
      [] key \in {"glottal_stop", "bullet", "asterisk", "remove_state",
                  "parentheses", "comma", "apostrophe"} -> <<>>

\* a run of characters of a class from s[i]: the position after it
AfterRun(s, i, class) ==
    CHOOSE j \in i..(Len(s) + 1) :
        /\ \A k \in i..(j - 1) : s[k] \in class
        /\ j <= Len(s) => s[j] \notin class

\* (?<!\b\w) before s[i]: the character before is the first of a word
GlottalBehind(s, i) == i >= 2 /\ IsWordChar(s[i - 1]) /\ WordBoundary(s, i - 1)

\* \w?s\b after s[i]
GlottalAhead(s, i) ==
    \/ i + 1 <= Len(s) /\ s[i + 1] = "s" /\ WordBoundary(s, i + 2)
    \/ i + 2 <= Len(s) /\ IsWordChar(s[i + 1]) /\ s[i + 2] = "s" /\ WordBoundary(s, i + 3)

\* [\*\<U+2022>\-]{1,2} at s[i]: how many bullet characters are taken
BulletRun(s, i) ==
    IF i > Len(s) \/ s[i] \notin {"*", "U+2022", "-"} THEN 0
    ELSE IF i + 1 <= Len(s) /\ s[i + 1] \in {"*", "U+2022", "-"} THEN 2
    ELSE 1

\* \b[Ss]tate(?: of)?\s+ at s[i]: the length of the match, 0 when none
RemoveStateMatchLen(s, i) ==
    IF ~(/\ WordBoundary(s, i)
         /\ s[i] \in {"S", "s"}
         /\ i + 4 <= Len(s)
         /\ SubSeq(s, i + 1, i + 4) = s_tate)
    THEN 0
    ELSE IF /\ i + 7 <= Len(s)
            /\ SubSeq(s, i + 5, i + 7) = s_space_of
            /\ AfterSpaces(s, i + 8) > i + 8
    THEN AfterSpaces(s, i + 8) - i
    ELSE IF AfterSpaces(s, i + 5) > i + 5 THEN AfterSpaces(s, i + 5) - i
    ELSE 0

\* the pattern of the rule PATTERN_MAP[key] at s[i]: the length of its
\* match, 0 when it does not match there
PatternMatchLen(key, s, i) ==
    CASE key = "glottal_stop" ->
            IF /\ s[i] \in {"U+00FF", "'", "U+2018"}
               /\ ~GlottalBehind(s, i)
               /\ ~GlottalAhead(s, i)
            THEN 1 ELSE 0
      [] key = "whitespace" -> AfterRun(s, i, {".", " "}) - i
      [] key = "bullet" ->
            IF i # 1 \/ BulletRun(s, AfterSpaces(s, 1)) = 0 THEN 0
            ELSE AfterSpaces(s, AfterSpaces(s, 1) + BulletRun(s, AfterSpaces(s, 1))) - 1
      [] key = "newline" -> IF s[i] = "\n" THEN 1 ELSE 0
      [] key = "non_breaking_space" -> AfterRun(s, i, {"NBSP"}) - i
      [] key = "hyphens" -> IF s[i] = "U+2011" THEN 1 ELSE 0
      [] key = "asterisk" ->
            IF AfterSpaces(s, i) <= Len(s) /\ s[AfterSpaces(s, i)] = "*"
            THEN AfterSpaces(s, AfterSpaces(s, i) + 1) - i ELSE 0
      [] key = "remove_state" -> RemoveStateMatchLen(s, i)
      [] key = "slash" ->
            IF AfterSpaces(s, i) <= Len(s) /\ s[AfterSpaces(s, i)] = "/"
            THEN AfterSpaces(s, AfterSpaces(s, i) + 1) - i ELSE 0
      [] key = "parentheses" -> IF s[i] \in {"(", ")"} THEN 1 ELSE 0
      [] key = "comma" -> IF s[i] = "," THEN AfterSpaces(s, i + 1) - i ELSE 0
      [] key = "apostrophe" -> IF s[i] = "'" THEN 1 ELSE 0

\* re.sub from s[i] on: the matches are taken from left to right, without
\* overlap, and replaced
RECURSIVE ReSub(_, _, _)
\* n is the length of the match at s[i]
ReSubAt(key, s, i, n) ==
    IF n > 0 THEN PatternReplacement(key) \o ReSub(key, s, i + n)
    ELSE <<s[i]>> \o ReSub(key, s, i + 1)

ReSub(key, s, i) ==
    IF i > Len(s) THEN <<>> ELSE ReSubAt(key, s, i, PatternMatchLen(key, s, i))

\* re.sub(pattern, replacement, s) for the rule PATTERN_MAP[key]
ApplyPattern(key, s) == ReSub(key, s, 1)

\* apply_string_cleaning_patterns with one (pattern, replacement) pair and
\* attempt_cast_to_int False: a str is rewritten; any other value is turned
\* into its str, rewritten and turned back, which for a non-negative
\* integer gives the integer again.
apply_string_cleaning_patterns(value, key) ==
    IF value.t = "str" THEN Str(ApplyPattern(key, value.s)) ELSE value

\* KeyError(msg), msg naming the pattern key that PATTERN_MAP does not have
RaiseKeyError(pattern_key) == [exc |-> "KeyError", val |-> None, key |-> pattern_key]

\* the loop going over pattern_keys from the last key to the first
RECURSIVE clean_string_with_named_patterns_last_first(_, _)
clean_string_with_named_patterns_last_first(value, pattern_keys) ==
    IF pattern_keys = <<>> THEN Return(value)
    ELSE IF pattern_keys[Len(pattern_keys)] \notin PATTERN_MAP_KEYS
    THEN RaiseKeyError(pattern_keys[Len(pattern_keys)])
    ELSE clean_string_with_named_patterns_last_first(
             apply_string_cleaning_patterns(value, pattern_keys[Len(pattern_keys)]),
             SubSeq(pattern_keys, 1, Len(pattern_keys) - 1))

RECURSIVE clean_string_with_named_patterns(_, _)
clean_string_with_named_patterns(value, pattern_keys) ==
    IF pattern_keys = <<>> THEN Return(value)
    ELSE IF Head(pattern_keys) \notin PATTERN_MAP_KEYS
    THEN RaiseKeyError(Head(pattern_keys))
    ELSE clean_string_with_named_patterns(
             apply_string_cleaning_patterns(value, Head(pattern_keys)),
             Tail(pattern_keys))

(***************************************************************************)
(* datacore/formatting.py and datacore/df_manager/formatting.py:           *)
(* format_column_name.                                                     *)
(***************************************************************************)
\* SUBSTITUTION_MAP, as (word, substitute) pairs
SUBSTITUTION_MAP ==
    <<<<<<"%">>, s_percent>>, <<s_populationa, s_population>>,
      <<s_populationb, s_population>>, <<s_hawaiiana, s_hawaiian>>,
      <<s_hawaiianb, s_hawaiian>>>>

\* substitutions.get(word, word)
SubstitutionGet(word) ==
    IF \E i \in 1..Len(SUBSTITUTION_MAP) : SUBSTITUTION_MAP[i][1] = word
    THEN SUBSTITUTION_MAP[CHOOSE i \in 1..Len(SUBSTITUTION_MAP) :
                              SUBSTITUTION_MAP[i][1] = word][2]
    ELSE word

IGNORED_WORDS == {s_census, s_estimates}

\* the delimiters with the underscore among them
SplitDelimitersAndUnderscore == {".", " ", "_"}

\* the characters of the class [\. ]
SplitDelimiters == {".", " "}

\* re.split(r"[\. ]+", s) from s[i] on, cur being the word read so far
RECURSIVE ReSplit(_, _, _)
ReSplit(s, i, cur) ==
    IF i > Len(s) THEN <<cur>>
    ELSE IF s[i] \in SplitDelimiters
    THEN <<cur>> \o ReSplit(s, AfterRun(s, i, SplitDelimiters), <<>>)
    ELSE ReSplit(s, i + 1, Append(cur, s[i]))

\* "_".join(words)
RECURSIVE JoinUnderscore(_)
JoinUnderscore(words) ==
    IF words = <<>> THEN <<>>
    ELSE IF Len(words) = 1 THEN words[1]
    ELSE words[1] \o <<"_">> \o JoinUnderscore(Tail(words))

\* s.strip("_")
StripUnderscores(s) ==
    LET keep == {i \in 1..Len(s) : s[i] # "_"}
    IN  IF keep = {} THEN <<>>
        ELSE SubSeq(s, CHOOSE i \in keep : \A j \in keep : i <= j,
                       CHOOSE i \in keep : \A j \in keep : j <= i)

\* the words of the name that are kept, each one substituted
FormattedWords(name) ==
    LET str_list == SelectSeq(ReSplit(Lower(name), 1, <<>>),
                              LAMBDA word : word \notin IGNORED_WORDS)
    IN  [i \in 1..Len(str_list) |-> SubstitutionGet(str_list[i])]

\* datacore/formatting.py, with the default ignored and substitutions
format_column_name(name) == StripUnderscores(JoinUnderscore(FormattedWords(name)))

\* datacore/df_manager/formatting.py, with the default ignored,
\* substitutions and named_patterns: each substituted word goes through
\* the six rules
df_manager_format_column_name(name) ==
    LET words == FormattedWords(name)
    IN  StripUnderscores(JoinUnderscore(
            [i \in 1..Len(words) |->
                clean_string_with_named_patterns(
                    Str(words[i]),
                    <<"slash", "parentheses", "comma", "hyphens", "glottal_stop",
                      "apostrophe">>).val.s]))

(***************************************************************************)
(* datacore/formatting.py: format_column_names.  A DataFrame is            *)
(* [columns, rows]: the column labels and the rows of cells.               *)
(***************************************************************************)
\* the default flag_word
FlagWord == s_Unnamed

\* the default min_rows
MinRows == 2

\* the test on the number of rows left out
TooFewRowsNever(df) == FALSE

\* df.shape[0] < min_rows
TooFewRows(df) == Len(df.rows) < MinRows

\* df.empty: an axis of length 0
DfEmpty(df) == Len(df.columns) = 0 \/ Len(df.rows) = 0

\* str(v) inside an f-string, for text and for a missing value
PyStr(v) ==
    CASE v.t = "str" -> v.s
      [] v.t = "nan" -> s_nan

\* (isna(col)) or (flag_word in col), for a label that is missing or text
IsFlagged(col) == col.t = "nan" \/ (col.t = "str" /\ Contains(col.s, FlagWord))

\* The loop over the column labels from the label at col_idx on
\* (col_idx and last_valid_column_idx count from 1 here, from 0 in the
\* source).  "Unnamed" in col raises TypeError for a label that is a
\* number; df.iloc[1, col_idx] raises IndexError in a table of one row.
RECURSIVE FormatNamesLoop(_, _, _, _)
FormatNamesLoop(df, col_idx, last_valid_column_idx, new_names) ==
    IF col_idx > Len(df.columns) THEN [exc |-> "", names |-> new_names]
    ELSE
        LET col == df.columns[col_idx]
        IN  IF col.t \notin {"nan", "str"} THEN [exc |-> "TypeError", names |-> <<>>]
            ELSE IF IsFlagged(col)
            THEN LET row_idx  == IF df.rows[1][col_idx].t = "nan" THEN 2 ELSE 1
                     prev_col == df.columns[last_valid_column_idx]
                 IN  IF row_idx > Len(df.rows)
                     THEN [exc |-> "IndexError", names |-> <<>>]
                     ELSE FormatNamesLoop(
                              df, col_idx + 1, last_valid_column_idx,
                              Append(new_names,
                                     Str(format_column_name(
                                         PyStr(prev_col) \o <<" ">>
                                             \o PyStr(df.rows[row_idx][col_idx])))))
            ELSE FormatNamesLoop(df, col_idx + 1, col_idx,
                                 Append(new_names, Str(format_column_name(col.s))))

\* format_column_names(df, inplace) with the default flag_word and
\* min_rows: what is raised, the list of new names, what is returned (the
\* list, or the DataFrame itself when inplace), and the DataFrame after
\* the call.
format_column_names(df, inplace) ==
    IF DfEmpty(df) \/ TooFewRows(df)
    THEN [exc |-> "ValueError", names |-> <<>>, returned |-> "none", df |-> df]
    ELSE
        LET loop == FormatNamesLoop(df, 1, 1, <<>>)
        IN  IF loop.exc # ""
            THEN [exc |-> loop.exc, names |-> <<>>, returned |-> "none", df |-> df]
            ELSE IF inplace
            THEN [exc |-> "", names |-> loop.names, returned |-> "df",
                  df |-> [df EXCEPT !.columns = loop.names]]
            ELSE [exc |-> "", names |-> loop.names, returned |-> "list", df |-> df]

(***************************************************************************)
(* pandas: the DataFrame operations the manager uses.                      *)
(* A DataFrame is [columns |-> labels, rows |-> sequence of rows]; an      *)
(* indexed frame keeps each row's index label beside its cells.            *)
(***************************************************************************)
IsNa(c) == c.t = "nan"

\* rows with their index labels 0, 1, 2, ...
IndexRows(rows) == [i \in 1..Len(rows) |-> [label |-> i - 1, cells |-> rows[i]]]

\* df.dropna(): the rows with no missing cell, index labels kept
DropNaAny(irows) ==
    SelectSeq(irows, LAMBDA r : \A j \in 1..Len(r.cells) : ~IsNa(r.cells[j]))

\* df.dropna(how="all").reset_index(drop=True): the rows with a cell present
DropNaAllReset(rows) ==
    SelectSeq(rows, LAMBDA r : \E j \in 1..Len(r) : ~IsNa(r[j]))

\* a column that holds a string anywhere is of dtype object; one that holds
\* only numbers and missing cells is numeric
IsObjectColumn(rows, j) == \E i \in 1..Len(rows) : rows[i][j].t = "str"

\* Series.str raises AttributeError unless the values are strings or mixed
\* (or there are none, in an object column)
StrAccessorRaises(isObject, values) ==
    \/ ~isObject
    \/ values # <<>> /\ \A i \in 1..Len(values) : values[i].t # "str"

(***************************************************************************)
(* datacore/df_manager/parsing.py: extract_metadata(df, column_idx,        *)
(* remove_rows).  column_idx counts the columns from 0.  The result holds  *)
(* the set of metadata lines, the table, and the mask as well, one boolean *)
(* per row of df, to tell which rows were taken as metadata.               *)
(***************************************************************************)
\* the mask taken over df.iloc[:, 2:], one column too far to the right
MetadataMaskFromThirdColumn(row) == \A j \in 3..Len(row) : IsNa(row[j])

\* mask = df.iloc[:, 1:].isna().all(axis=1)
MetadataMask(row) == \A j \in 2..Len(row) : IsNa(row[j])

\* one value of the column after .str.strip() and the four rules: a value
\* that is not a str becomes nan under .str, and the rules leave a nan a nan
MetadataLine(value) ==
    IF value.t # "str" THEN NaN
    ELSE clean_string_with_named_patterns(
             Str(Strip(value.s)),
             <<"glottal_stop", "bullet", "newline", "non_breaking_space">>).val

extract_metadata(df, column_idx, remove_rows) ==
    \* df.columns[column_idx] on a column that is not there
    IF column_idx >= Len(df.columns)
    THEN [exc |-> "IndexError", data |-> df, lines |-> {}, mask |-> <<>>]
    ELSE
    LET mask == [i \in 1..Len(df.rows) |-> MetadataMask(df.rows[i])]
        masked == SelectSeq(df.rows, MetadataMask)
        \* df.loc[mask, df.columns[column_idx]].dropna()
        values == SelectSeq([i \in 1..Len(masked) |-> masked[i][column_idx + 1]],
                            LAMBDA c : ~IsNa(c))
    IN  IF StrAccessorRaises(IsObjectColumn(df.rows, column_idx + 1), values)
        THEN [exc |-> "AttributeError", data |-> df, lines |-> {}, mask |-> mask]
        ELSE [exc |-> "",
              \* df[~mask].reset_index(drop=True) if remove_rows else df
              data |-> IF remove_rows
                       THEN [columns |-> df.columns,
                             rows |-> SelectSeq(df.rows, LAMBDA r : ~MetadataMask(r))]
                       ELSE df,
              lines |-> {MetadataLine(values[i]) : i \in 1..Len(values)},
              mask |-> mask]

(***************************************************************************)
(* DataFrameManager.categorize_metadata.  The argument is the set's items  *)
(* in the order metadata_set.pop() hands them out.  The result is a dict:  *)
(* keys tells which of "source" and "notes" it has; source is a bare       *)
(* string (t = "str", v of length 1) or a list (t = "list").               *)
(***************************************************************************)
\* the stored source with item.rsplit(":", 1)[-1] in place of split
SourceTextAfterLastColon(item) == Strip(RSplitOnceLast(item, ":"))

\* item.split(":", 1)[-1].strip()
SourceText(item) == Strip(SplitOnceLast(item, ":"))

\* the while loop: the lists under "source" and "notes" it builds
RECURSIVE CategorizeLoop(_, _, _)
CategorizeLoop(items, source, notes) ==
    IF items = <<>> THEN [exc |-> "", source |-> source, notes |-> notes]
    \* item.lower() on a value that is not a str
    ELSE IF Head(items).t # "str"
    THEN [exc |-> "AttributeError", source |-> source, notes |-> notes]
    ELSE IF StartsWith(Lower(Head(items).s), s_source)
    THEN CategorizeLoop(Tail(items), Append(source, SourceText(Head(items).s)), notes)
    ELSE CategorizeLoop(Tail(items), source, Append(notes, Head(items).s))

\* the loop iterates over the set and pops nothing
SetNotPopped(items, n) == {items[i] : i \in 1..Len(items)}

\* metadata_set.pop(), n times: what is left of the caller's set, whose items
\* come out in the order items
SetAfterPops(items, n) == {items[i] : i \in (n + 1)..Len(items)}

\* metadata_set is the caller's set as the call leaves it
categorize_metadata(items) ==
    LET done == CategorizeLoop(items, <<>>, <<>>)
    IN  IF done.exc # ""
        THEN [exc |-> done.exc, keys |-> {}, source |-> [t |-> "list", v |-> <<>>],
              notes |-> <<>>,
              \* the item that raised was popped too
              metadata_set |->
                  SetAfterPops(items, Len(done.source) + Len(done.notes) + 1)]
        ELSE [exc |-> "",
              metadata_set |->
                  SetAfterPops(items, Len(done.source) + Len(done.notes)),
              \* a defaultdict: "notes" is there once a note was appended,
              \* "source" always, made by the len() test if not before
              keys |-> {"source"} \cup (IF done.notes # <<>> THEN {"notes"} ELSE {}),
              source |-> IF Len(done.source) = 1
                         THEN [t |-> "str", v |-> done.source]
                         ELSE [t |-> "list", v |-> done.source],
              notes |-> done.notes]

\* categorize_metadata calls item.lower() on every line: a line that is not
\* a str (a number of a mixed column) raises AttributeError
CategorizeRaises(lines) == \E line \in lines : line.t # "str"

(***************************************************************************)
(* utils.py: extract_years_from_string.  An item of the result is a year   *)
(* [t |-> "int", a |-> year, b |-> 0] or a range [t |-> "range", a, b].    *)
(***************************************************************************)
\* (\d{4}) at s[i]
FourDigitsAt(s, i) == i >= 1 /\ i + 3 <= Len(s) /\ \A k \in i..(i + 3) : IsDigit(s[k])

\* int() of the four digits at s[i]
Int4(s, i) ==
    1000 * DigitVal(s[i]) + 100 * DigitVal(s[i + 1]) + 10 * DigitVal(s[i + 2])
        + DigitVal(s[i + 3])

\* the first alternative never matching: no range is recognised
YearRangeMatchLenNever(s, i) == 0

\* (\d{4})\s*-\s*(\d{4}) at s[i]: the length of the match, 0 when there is none
YearRangeMatchLen(s, i) ==
    IF ~FourDigitsAt(s, i) THEN 0
    ELSE LET hyphen == AfterSpaces(s, i + 4)
         IN  IF hyphen > Len(s) \/ s[hyphen] # "-" THEN 0
             ELSE LET second == AfterSpaces(s, hyphen + 1)
                  IN  IF FourDigitsAt(s, second) THEN second + 4 - i ELSE 0

\* \b(\d{4})\b at s[i]
SingleYearAt(s, i) ==
    WordBoundary(s, i) /\ FourDigitsAt(s, i) /\ WordBoundary(s, i + 4)

\* re.findall from s[i] on, and the loop over its matches
RECURSIVE FindYears(_, _)
FindYears(s, i) ==
    IF i > Len(s) THEN <<>>
    ELSE IF YearRangeMatchLen(s, i) > 0
    THEN <<[t |-> "range", a |-> Int4(s, i),
            b |-> Int4(s, i + YearRangeMatchLen(s, i) - 4)]>>
             \o FindYears(s, i + YearRangeMatchLen(s, i))
    ELSE IF SingleYearAt(s, i)
    THEN <<[t |-> "int", a |-> Int4(s, i), b |-> 0]>> \o FindYears(s, i + 4)
    ELSE FindYears(s, i + 1)

extract_years_from_string(title) ==
    LET cleaned == clean_string_with_named_patterns(title, <<"hyphens">>)
    IN  \* re.findall on a value that is not a str
        IF cleaned.val.t # "str" THEN Raise("TypeError")
        ELSE [exc |-> "", val |-> FindYears(cleaned.val.s, 1)]

\* extract_years_from_string(table_name) if table_name else []: re.findall
\* raises TypeError on a name that is not a str
YearsRaises(table_name) == Truthy(table_name) /\ table_name.t # "str"

(***************************************************************************)
(* DataFrameManager.extract_table_names                                    *)
(***************************************************************************)
\* re.match(r"^[A-Z]+", table).group() if it matches, else None
LeadingUpperRun(s) ==
    LET n == Cardinality({k \in 1..Len(s) : \A i \in 1..k : IsUpper(s[i])})
    IN  IF n = 0 THEN None ELSE Str(SubSeq(s, 1, n))

\* one row of the result frame: the columns 0 (the key), theme and name
TitleRow(id, theme, name) == [exc |-> "", id |-> id, theme |-> theme, name |-> name]
TitleRowRaises(e) == [exc |-> e, id |-> None, theme |-> None, name |-> None]

\* the row with the name clean_string_with_named_patterns gave, or what it
\* raised
TitleRowCleaned(id, theme, cleaned) ==
    IF cleaned.exc # "" THEN TitleRowRaises(cleaned.exc)
    ELSE TitleRow(id, theme, cleaned.val)

\* mode "normal" with the "0" left off the table code
process_titles_row_normal_no_zero(table, table_name, title_cleaning_patterns) ==
    IF table.t # "str" THEN TitleRowRaises("TypeError")
    ELSE IF Contains(table.s, s_Table) /\ table.s # s_Table
    THEN TitleRowCleaned(Str(SplitSpaceLast(table.s)), None,
                         clean_string_with_named_patterns(table_name,
                                                          title_cleaning_patterns))
    ELSE IF Contains(table.s, s_Introduction)
    THEN TitleRow(Str(s_Introduction), None, table_name)
    ELSE TitleRow(None, None, None)

\* the helper process_titles_row, mode "normal"
process_titles_row_normal(table, table_name, title_cleaning_patterns) ==
    \* "Table" in table raises TypeError on a cell that is not a str
    IF table.t # "str" THEN TitleRowRaises("TypeError")
    ELSE IF Contains(table.s, s_Table) /\ table.s # s_Table
    THEN TitleRowCleaned(Str(s_0 \o SplitSpaceLast(table.s)), None,
                         clean_string_with_named_patterns(table_name,
                                                          title_cleaning_patterns))
    ELSE IF Contains(table.s, s_Introduction)
    THEN TitleRow(Str(s_Introduction), None, table_name)
    ELSE TitleRow(None, None, None)

\* the helper process_titles_row, mode "wiki"
process_titles_row_wiki(table, table_name, title_cleaning_patterns) ==
    \* re.match raises TypeError on a cell that is not a str
    IF table.t # "str" THEN TitleRowRaises("TypeError")
    ELSE
    TitleRowCleaned(IF Contains(table.s, s_Introduction) THEN Str(s_Introduction)
                    ELSE clean_string_with_named_patterns(table, <<"hyphens">>).val,
                    ThemeMapGet(LeadingUpperRun(table.s)),
                    clean_string_with_named_patterns(table_name,
                                                     title_cleaning_patterns))

process_titles_row(cells, title_sheet_type, title_cleaning_patterns) ==
    \* row.iloc[1] raises IndexError on a one-column sheet
    IF Len(cells) < 2 THEN TitleRowRaises("IndexError")
    ELSE IF title_sheet_type = "normal"
    THEN process_titles_row_normal(cells[1], cells[2], title_cleaning_patterns)
    ELSE IF title_sheet_type = "wiki"
    THEN process_titles_row_wiki(cells[1], cells[2], title_cleaning_patterns)
    ELSE TitleRow(None, None, None)

(***************************************************************************)
(* datacore/parsing.py: get_sheet_titles                                   *)
(***************************************************************************)
\* the length of what Hawai<U+221A><U+00F8>i|Hawai'i matches at s[i], 0 when nothing
HawaiiMatchLen(s, i) ==
    IF i + 7 <= Len(s) /\ SubSeq(s, i, i + 7) = s_Hawaii_mojibake THEN 8
    ELSE IF i + 6 <= Len(s) /\ SubSeq(s, i, i + 6) = s_Hawaii_apostrophe THEN 7
    ELSE 0

\* re.sub(r"Hawai<U+221A><U+00F8>i|Hawai'i", "Hawaii", s) from s[i] on
RECURSIVE ReSubHawaii(_, _)
ReSubHawaii(s, i) ==
    IF i > Len(s) THEN <<>>
    ELSE IF HawaiiMatchLen(s, i) > 0
    THEN s_Hawaii \o ReSubHawaii(s, i + HawaiiMatchLen(s, i))
    ELSE <<s[i]>> \o ReSubHawaii(s, i + 1)

\* the while loop over title_pairs: the pairs appended for the rows that
\* are left.  Unpacking a row that has not two cells raises ValueError,
\* "Table" in a number and re.sub on a number raise TypeError.
RECURSIVE SheetTitlesLoop(_, _)
SheetTitlesLoop(title_pairs, table_name_pairs) ==
    IF title_pairs = <<>> THEN Return(table_name_pairs)
    ELSE
        LET row == Head(title_pairs)
        IN  IF Len(row) # 2 THEN Raise("ValueError")
            ELSE IF row[1].t # "str" THEN Raise("TypeError")
            ELSE IF Contains(row[1].s, s_Table) /\ row[1].s # s_Table
            THEN IF row[2].t # "str" THEN Raise("TypeError")
                 ELSE SheetTitlesLoop(
                          Tail(title_pairs),
                          Append(table_name_pairs,
                                 [id |-> Str(s_0 \o SplitSpaceLast(row[1].s)),
                                  title |-> Str(ReSubHawaii(row[2].s, 1))]))
            ELSE SheetTitlesLoop(Tail(title_pairs), table_name_pairs)

\* get_sheet_titles(df_dict), df_dict a sequence of [key, df]
get_sheet_titles(df_dict) ==
    IF \A i \in 1..Len(df_dict) : df_dict[i].key # s_Titles THEN Raise("KeyError")
    ELSE
        LET df == df_dict[CHOOSE i \in 1..Len(df_dict) : df_dict[i].key = s_Titles].df
            kept == DropNaAny(IndexRows(df.rows))
        IN  SheetTitlesLoop([i \in 1..Len(kept) |-> kept[i].cells], <<>>)

\* the sheet of a workbook (a sequence of [key, df]) under a key
HasSheet(df_dict, key) ==
    key.t = "str" /\ \E i \in 1..Len(df_dict) : df_dict[i].key = key.s
GetSheet(df_dict, key) ==
    df_dict[CHOOSE i \in 1..Len(df_dict) : df_dict[i].key = key.s].df

\* title_df.iloc[:, 0].str.contains("Table", na=False).idxmax(): the index
\* label of the first row whose first cell contains "Table"; the label of
\* the first row when no row does
TableIdxMax(title_df) ==
    LET hits == {i \in 1..Len(title_df) :
                    /\ title_df[i].cells[1].t = "str"
                    /\ Contains(title_df[i].cells[1].s, s_Table)}
    IN  IF hits = {} THEN title_df[1].label
        ELSE title_df[CHOOSE i \in hits : \A j \in hits : i <= j].label

\* .set_index(0).rename(...).to_dict(orient="index") of the rows that
\* table_rows.apply(process_titles_row, axis=1) gave
TitleMapOfApplied(applied) ==
    LET failed == {i \in 1..Len(applied) : applied[i].exc # ""}
    IN  IF failed # {}
        THEN Raise(applied[CHOOSE i \in failed : \A j \in failed : i <= j].exc)
        \* to_dict(orient="index") needs a unique index
        ELSE IF \E i, j \in 1..Len(applied) : i < j /\ applied[i].id = applied[j].id
        THEN Raise("ValueError")
        ELSE Return([i \in 1..Len(applied) |->
                        [id |-> applied[i].id, theme |-> applied[i].theme,
                         name |-> applied[i].name]])

\* the value is the title map: a sequence of [id, theme, name], one per row
extract_table_names(df_dict, titles_sheet_name, kwargs) ==
    IF ~HasSheet(df_dict, titles_sheet_name) THEN Raise("KeyError")
    ELSE
    LET df == GetSheet(df_dict, titles_sheet_name)
        title_df == DropNaAny(IndexRows(df.rows))
    IN  IF Len(df.columns) = 0 THEN Raise("IndexError")
        ELSE IF StrAccessorRaises(IsObjectColumn(df.rows, 1),
                                  [i \in 1..Len(title_df) |-> title_df[i].cells[1]])
        THEN Raise("AttributeError")
        \* idxmax of an empty Series
        ELSE IF title_df = <<>> THEN Raise("ValueError")
        ELSE
        LET table_rows == PySliceFrom(title_df, TableIdxMax(title_df) - 2)
        IN  \* apply on a frame without rows gives the frame back, and it has
            \* no column 0 for set_index
            IF table_rows = <<>> THEN Raise("KeyError")
            ELSE TitleMapOfApplied(
                     [i \in 1..Len(table_rows) |->
                         process_titles_row(table_rows[i].cells,
                                            kwargs.title_sheet_type,
                                            kwargs.title_cleaning_patterns)])

(***************************************************************************)
(* DataFrameEntry and the dict the manager is.                             *)
(***************************************************************************)
\* the fields of the dataclass that the load sets from the sheet
DataFrameEntry(dataframe, name, original_sheet_name, tags) ==
    [dataframe |-> dataframe, name |-> name,
     original_sheet_name |-> original_sheet_name, tags |-> tags]

\* self[key] = value: an existing key keeps its place in the dict's order
SetItem(d, key, value) ==
    IF \E i \in 1..Len(d) : d[i].key = key
    THEN [i \in 1..Len(d) |-> IF d[i].key = key THEN [key |-> key, value |-> value]
                                ELSE d[i]]
    ELSE Append(d, [key |-> key, value |-> value])

Keys(d) == {d[i].key : i \in 1..Len(d)}

\* __iter__: iter(self.values())
Iter(d) == [i \in 1..Len(d) |-> d[i].value]

(***************************************************************************)
(* DataFrameManager._process_raw_dataframes                                *)
(***************************************************************************)
\* table_names_and_themes.get(key, {}) followed by .get("name", key) and
\* .get("theme", None)
TitleMapHas(table_names_and_themes, key) ==
    \E i \in 1..Len(table_names_and_themes) : table_names_and_themes[i].id = Str(key)
TitleMapGet(table_names_and_themes, key) ==
    table_names_and_themes[CHOOSE i \in 1..Len(table_names_and_themes) :
                               table_names_and_themes[i].id = Str(key)]

\* table_info.get("name") in place of table_info.get("name", key)
TableNameNoFallback(table_names_and_themes, key) ==
    IF TitleMapHas(table_names_and_themes, key)
    THEN TitleMapGet(table_names_and_themes, key).name
    ELSE None

TableName(table_names_and_themes, key) ==
    IF TitleMapHas(table_names_and_themes, key)
    THEN TitleMapGet(table_names_and_themes, key).name
    ELSE Str(key)

TableTheme(table_names_and_themes, key) ==
    IF TitleMapHas(table_names_and_themes, key)
    THEN TitleMapGet(table_names_and_themes, key).theme
    ELSE None

\* the key an entry is stored under, with the count of all the sheets
\* processed so far, "Introduction" included, in place of int_key
EntryKeyBySheetPosition(key, int_key, position) ==
    IF key # s_Introduction THEN Num(position) ELSE Str(key)

\* the key an entry is stored under: int_key, or "Introduction"
EntryKey(key, int_key, position) ==
    IF key # s_Introduction THEN Num(int_key) ELSE Str(key)

\* the loop over raw_df_dict.items(); the value is the dict when the loop
\* ends or raises, and the exception
RECURSIVE ProcessSheets(_, _, _, _, _)
ProcessSheets(sheets, table_names_and_themes, int_key, position, d) ==
    IF sheets = <<>> THEN [exc |-> "", store |-> d]
    ELSE
    LET key == Head(sheets).key
        df == Head(sheets).df
        table_name == TableName(table_names_and_themes, key)
        table_theme == TableTheme(table_names_and_themes, key)
        extracted == extract_metadata([columns |-> df.columns,
                                       rows |-> DropNaAllReset(df.rows)],
                                      0, TRUE)
        df_entry == DataFrameEntry(extracted.data, table_name, key,
                                   IF Truthy(table_theme) THEN {table_theme.s} ELSE {})
    IN  IF extracted.exc # "" THEN [exc |-> extracted.exc, store |-> d]
        ELSE IF YearsRaises(table_name) THEN [exc |-> "TypeError", store |-> d]
        ELSE IF CategorizeRaises(extracted.lines)
        THEN [exc |-> "AttributeError", store |-> d]
        ELSE ProcessSheets(Tail(sheets), table_names_and_themes,
                           IF key # s_Introduction THEN int_key + 1 ELSE int_key,
                           position + 1,
                           SetItem(d, EntryKey(key, int_key, position), df_entry))

\* raw_df_dict.pop(titles_sheet_name, None)
PopSheet(raw_df_dict, titles_sheet_name) ==
    SelectSeq(raw_df_dict, LAMBDA sh : Str(sh.key) # titles_sheet_name)

\* the sheets the loop goes over
SheetsToProcess(raw_df_dict, titles_sheet_name, kwargs) ==
    IF kwargs.drop_title_sheet /\ Truthy(titles_sheet_name)
    THEN PopSheet(raw_df_dict, titles_sheet_name)
    ELSE raw_df_dict

_process_raw_dataframes(d, raw_df_dict, kwargs) ==
    LET titles_sheet_name ==
            find_titles_sheet_name([i \in 1..Len(raw_df_dict) |-> raw_df_dict[i].key],
                                   kwargs)
    IN  IF titles_sheet_name.exc # ""
        THEN [exc |-> titles_sheet_name.exc, store |-> d]
        \* extract_table_names(raw_df_dict, titles_sheet_name, **kwargs) with
        \* titles_sheet_name among the kwargs: the parameter gets two values
        ELSE IF kwargs.has_titles_sheet_name THEN [exc |-> "TypeError", store |-> d]
        ELSE
        LET table_names_and_themes ==
                extract_table_names(raw_df_dict, titles_sheet_name.val, kwargs)
        IN  IF table_names_and_themes.exc # ""
            THEN [exc |-> table_names_and_themes.exc, store |-> d]
            ELSE ProcessSheets(
                     SheetsToProcess(raw_df_dict, titles_sheet_name.val, kwargs),
                     table_names_and_themes.val, 1, 1, d)

(***************************************************************************)
(* DataFrameManager.load_from_url / load_from_excel                        *)
(***************************************************************************)
\* the guard with its "not" left out: if overwrite and self
LoadRefusedNotLeftOut(d, overwrite) == overwrite /\ d # <<>>

\* if not overwrite and self: raise ValueError
LoadRefused(d, overwrite) == ~overwrite /\ d # <<>>

\* raw_df_dict is what pd.read_excel(..., sheet_name=None) gives for the
\* source; fetched tells whether the source was read at all
Load(d, raw_df_dict, overwrite, kwargs) ==
    IF LoadRefused(d, overwrite)
    THEN [exc |-> "ValueError", store |-> d, fetched |-> FALSE]
    ELSE LET done == _process_raw_dataframes(d, raw_df_dict, kwargs)
         IN  [exc |-> done.exc, store |-> done.store, fetched |-> TRUE]

(***************************************************************************)
(* The workbooks loaded: what pd.read_excel(..., sheet_name=None) returns, *)
(* a sequence of [key, df] in sheet order, the first row of each sheet     *)
(* being the column labels.                                                *)
(***************************************************************************)
Sheet(key, columns, rows) == [key |-> key, df |-> [columns |-> columns, rows |-> rows]]

TitleColumns == <<Str(s_Table), Str(s_Title)>>

\* an index sheet with the codes "Table 1" and "Table 2"
TitlesPlain(key) ==
    Sheet(key, TitleColumns,
          << <<Str(s_Table_1), Str(s_Population_by_Island)>>,
             <<Str(s_Table_2), Str(s_Housing_Units)>> >>)

\* an index sheet with the codes "Table 1.01" and "Table 1.02"
TitlesDotted(key) ==
    Sheet(key, TitleColumns,
          << <<Str(s_Table_1_01), Str(s_Population_by_Island)>>,
             <<Str(s_Table_1_02), Str(s_Housing_Units)>> >>)

\* an index sheet with a banner row, an Introduction row and a heading row
\* above the table rows; one title has a non-breaking hyphen
TitlesBook(key) ==
    Sheet(key, TitleColumns,
          << <<Str(s_OHA_Data_Book), NaN>>,
             <<Str(s_Introduction), Str(s_About)>>,
             <<Str(s_Table), Str(s_Title)>>,
             <<Str(s_Table_1_01), Str(s_Population_by_Island)>>,
             <<Str(s_Table_1_02), Str(s_Housing_nb_Units)>> >>)

\* a wiki-style index sheet: a theme code and a number
TitlesWiki(key) ==
    Sheet(key, TitleColumns, << <<Str(s_POP_nb_01), Str(s_Population)>> >>)

\* a data sheet with a source line under the data
Islands(key) ==
    Sheet(key, <<Str(s_Island), Str(s_Total)>>,
          << <<Str(s_Oahu), Num(1)>>, <<Str(s_Maui), Num(2)>>,
             <<Str(s_Source_Census), NaN>> >>)

\* a data sheet with an empty row
Housing(key) ==
    Sheet(key, <<Str(s_Island), Str(s_Total)>>,
          << <<Str(s_Oahu), Num(3)>>, <<NaN, NaN>>, <<Str(s_Maui), Num(4)>> >>)

\* a data sheet whose first column holds numbers only
Years(key) ==
    Sheet(key, <<Str(s_Year), Str(s_Total)>>,
          << <<Num(2006), Num(1)>>, <<Num(2010), Num(2)>> >>)

\* a sheet of text only
Intro(key) ==
    Sheet(key, <<Str(s_About), Str(s_Unnamed_1)>>,
          << <<Str(s_OHA_Data_Book), NaN>>, <<Str(s_About), NaN>> >>)

WorkbookIds ==
    {"scenario", "dotted", "book", "noindex", "lowercase", "badsheet", "wiki"}

Workbook(id) ==
    CASE id = "scenario" ->
            <<TitlesPlain(s_Titles), Islands(s_01_01), Housing(s_01_02)>>
      [] id = "dotted" ->
            <<TitlesDotted(s_Titles), Islands(s_01_01), Housing(s_01_02)>>
      [] id = "book" ->
            <<Intro(s_Introduction), TitlesBook(s_Titles), Islands(s_01_01),
              Housing(s_01_02)>>
      [] id = "noindex" -> <<Islands(s_01_01), Housing(s_01_02)>>
      [] id = "lowercase" -> <<TitlesDotted(s_titles), Islands(s_01_01)>>
      [] id = "badsheet" ->
            <<TitlesDotted(s_Titles), Islands(s_01_01), Years(s_01_03),
              Housing(s_01_02)>>
      [] id = "wiki" -> <<TitlesWiki(s_Title_Index), Islands(s_POP_01)>>

\* the keyword arguments a load is called with
KwargsSet ==
    LET configs ==
            { DefaultKwargs,
              [DefaultKwargs EXCEPT !.title_cleaning_patterns = <<"hyphens">>],
              [DefaultKwargs EXCEPT !.title_cleaning_patterns = <<"dashes">>],
              [DefaultKwargs EXCEPT !.title_sheet_type = "wiki"],
              [DefaultKwargs EXCEPT !.title_sheet_type = "table"],
              [DefaultKwargs EXCEPT !.has_titles_sheet_name = TRUE,
                                    !.titles_sheet_name = Str(s_Titles)] }
    IN  {[c EXCEPT !.drop_title_sheet = drop] : c \in configs, drop \in BOOLEAN}

(***************************************************************************)
(* The manager as a state machine.                                         *)
(***************************************************************************)
NoCall == [fn |-> "none"]

\* no entry object has been made, no name list cached, no graph run started
NoEntry == [cls |-> "none"]
NotCached == [cached |-> FALSE, names |-> <<>>]
NoGraph == [node |-> "none", messages |-> <<>>]

NoObjects ==
    /\ entry = NoEntry
    /\ clock = 0
    /\ names_cache = NotCached
    /\ graph = NoGraph

InitLast ==
    [op |-> "init", wb |-> "", overwrite |-> FALSE, kwargs |-> DefaultKwargs,
     before |-> <<>>, exc |-> "", fetched |-> FALSE]

\* DataFrameManager(): an empty dict
Init ==
    /\ store = <<>>
    /\ last = InitLast
    /\ nloads = 0
    /\ call = NoCall
    /\ ret = NoRet
    /\ NoObjects

\* what a load leaves behind: the dict, and the record of the call
Finish(op, wb, overwrite, kwargs, done) ==
    /\ store' = done.store
    /\ last' = [op |-> op, wb |-> wb, overwrite |-> overwrite,
                kwargs |-> kwargs, before |-> store, exc |-> done.exc,
                fetched |-> done.fetched]
    /\ nloads' = nloads + 1
    /\ UNCHANGED <<call, ret, objects>>

\* A load that is refused returns before it reads its source or looks at its
\* keyword arguments, so the record of the call names neither; any other
\* load reads the workbook wb from its source.
LoadSteps(op) ==
    \/ \E overwrite \in BOOLEAN :
         /\ LoadRefused(store, overwrite)
         /\ Finish(op, "", overwrite, DefaultKwargs,
                   Load(store, <<>>, overwrite, DefaultKwargs))
    \/ \E wb \in WorkbookIds, overwrite \in BOOLEAN, kwargs \in KwargsSet :
         /\ ~LoadRefused(store, overwrite)
         /\ Finish(op, wb, overwrite, kwargs,
                   Load(store, Workbook(wb), overwrite, kwargs))

\* the source is a URL: load_data_from_url, then pd.read_excel
load_from_url ==
    /\ nloads < MaxLoads
    /\ LoadSteps("load_from_url")

\* the source is a file path: pd.read_excel
load_from_excel ==
    /\ nloads < MaxLoads
    /\ LoadSteps("load_from_excel")

Next == load_from_url \/ load_from_excel

Spec == Init /\ [][Next]_vars

(***************************************************************************)
(* find_titles_sheet_name as a pure function: a list of sheet keys and the *)
(* keyword arguments are drawn, and the function is applied.               *)
(***************************************************************************)
KeyPool == {s_Titles, s_titles, s_TITLES, s_Title_Index, s_01_01, s_Introduction}

\* the lists of distinct keys of length n
RECURSIVE KeyListsOfLen(_)
KeyListsOfLen(n) ==
    IF n = 0 THEN {<<>>}
    ELSE {Append(ks, k) : ks \in KeyListsOfLen(n - 1), k \in KeyPool} \
         {ks \in UNION {{Append(l, k) : k \in KeyPool} : l \in KeyListsOfLen(n - 1)} :
             \E i, j \in 1..Len(ks) : i < j /\ ks[i] = ks[j]}

KeyLists == UNION {KeyListsOfLen(n) : n \in 0..MaxKeys}

FindKwargs ==
    { DefaultKwargs,
      [DefaultKwargs EXCEPT !.has_titles_sheet_name = TRUE,
                            !.titles_sheet_name = Str(s_01_01)],
      [DefaultKwargs EXCEPT !.has_titles_sheet_name = TRUE,
                            !.titles_sheet_name = Str(s_Title_Index)] }

InitFind ==
    /\ store = <<>>
    /\ last = InitLast
    /\ nloads = 0
    /\ call \in {[fn |-> "find_titles_sheet_name", df_dict_keys |-> ks, kwargs |-> kw] :
                    ks \in KeyLists, kw \in FindKwargs}
    /\ ret = NoRet
    /\ NoObjects

FindTitlesSheetName ==
    /\ call.fn = "find_titles_sheet_name"
    /\ ret = NoRet
    /\ ret' = find_titles_sheet_name(call.df_dict_keys, call.kwargs)
    /\ UNCHANGED <<store, last, nloads, call, objects>>

NextFind == FindTitlesSheetName

SpecFind == InitFind /\ [][NextFind]_vars

(***************************************************************************)
(* extract_metadata as a pure function: a table of one to three columns,   *)
(* a column index and remove_rows are drawn, and the function is applied.  *)
(***************************************************************************)
MetaColumns == <<Str(s_Island), Str(s_Total), Str(s_Year)>>

\* the cells of a column: the first one holds text, numbers and gaps, the
\* others text and gaps
MetaCells(j) ==
    IF j = 1 THEN {NaN, Str(s_Source_Census), Num(1)} ELSE {NaN, Str(s_Oahu)}

MetaRows(ncols) == {r \in [1..ncols -> {NaN, Str(s_Source_Census), Str(s_Oahu), Num(1)}] :
                       \A j \in 1..ncols : r[j] \in MetaCells(j)}

MetaTables ==
    UNION {{[columns |-> SubSeq(MetaColumns, 1, ncols), rows |-> rows] :
               rows \in UNION {[1..k -> MetaRows(ncols)] : k \in 0..MaxRows}} :
           ncols \in 1..Len(MetaColumns)}

InitMeta ==
    /\ store = <<>>
    /\ last = InitLast
    /\ nloads = 0
    /\ call \in {[fn |-> "extract_metadata", df |-> df, column_idx |-> c,
                   remove_rows |-> rr] :
                    df \in MetaTables, c \in 0..Len(MetaColumns), rr \in BOOLEAN}
    /\ ret = NoRet
    /\ NoObjects

ExtractMetadata ==
    /\ call.fn = "extract_metadata"
    /\ ret = NoRet
    /\ ret' = extract_metadata(call.df, call.column_idx, call.remove_rows)
    /\ UNCHANGED <<store, last, nloads, call, objects>>

NextMeta == ExtractMetadata

SpecMeta == InitMeta /\ [][NextMeta]_vars

(***************************************************************************)
(* categorize_metadata as a pure function: a set of metadata lines is      *)
(* drawn; set.pop() hands the lines out in an order the caller does not    *)
(* control, so the step takes any order.                                   *)
(***************************************************************************)
\* a nan is what .str.strip() leaves of a number in a column of mixed cells
MetadataLinePool ==
    {Str(s_Source_Census_Bureau), Str(s_Source_A), Str(s_Source_B),
     Str(s_SOURCE_A_nocolon), Str(s_source_a_b), Str(s_Note_x), Str(s_Resource),
     NaN}

MetadataSets == {S \in SUBSET MetadataLinePool : Cardinality(S) <= MaxLines}

\* the orders in which the items of a set can be popped
PopOrders(S) ==
    {q \in [1..Cardinality(S) -> S] :
        \A i, j \in 1..Cardinality(S) : i # j => q[i] # q[j]}

InitCat ==
    /\ store = <<>>
    /\ last = InitLast
    /\ nloads = 0
    /\ call \in {[fn |-> "categorize_metadata", metadata_set |-> S] :
                    S \in MetadataSets}
    /\ ret = NoRet
    /\ NoObjects

CategorizeMetadata ==
    /\ call.fn = "categorize_metadata"
    /\ ret.exc = "pending"
    /\ \E order \in PopOrders(call.metadata_set) :
           ret' = categorize_metadata(order)
    /\ UNCHANGED <<store, last, nloads, call, objects>>

NextCat == CategorizeMetadata

SpecCat == InitCat /\ [][NextCat]_vars

(***************************************************************************)
(* extract_years_from_string as a pure function: a title is drawn, one of  *)
(* the titles of the docstring or one put together from pieces, and the    *)
(* function is applied.                                                    *)
(***************************************************************************)
TitlePieces ==
    {s_2006, s_2010, <<"-">>, <<"U+2011">>, <<" ", "-", " ">>, <<" ">>, <<",">>,
     <<"1">>, <<"x">>}

RECURSIVE TitlesOfParts(_)
TitlesOfParts(n) ==
    IF n = 0 THEN {<<>>}
    ELSE {t \o p : t \in TitlesOfParts(n - 1), p \in TitlePieces}

YearTitles ==
    {s_Population_2006, s_Housing_2006_2010, s_Income_mixed, s_2006_2010_2012,
     s_2006_2006} \cup UNION {TitlesOfParts(n) : n \in 0..MaxParts}

InitYears ==
    /\ store = <<>>
    /\ last = InitLast
    /\ nloads = 0
    /\ call \in {[fn |-> "extract_years_from_string", title |-> Str(t)] :
                    t \in YearTitles}
    /\ ret = NoRet
    /\ NoObjects

ExtractYearsFromString ==
    /\ call.fn = "extract_years_from_string"
    /\ ret.exc = "pending"
    /\ ret' = extract_years_from_string(call.title)
    /\ UNCHANGED <<store, last, nloads, call, objects>>

NextYears == ExtractYearsFromString

SpecYears == InitYears /\ [][NextYears]_vars

(***************************************************************************)
(* clean_string_with_named_patterns as a pure function: a string and a     *)
(* list of pattern keys are drawn, "dashes" being a key PATTERN_MAP does   *)
(* not have, and the function is applied.                                  *)
(***************************************************************************)
CleanStrings ==
    {s_Hawaii_okina, s_Oahus, s_bullet_note, s_nbsp_dots, s_State_of, s_POP_star}

RECURSIVE PatternKeyLists(_)
PatternKeyLists(n) ==
    IF n = 0 THEN {<<>>}
    ELSE {Append(ks, k) : ks \in PatternKeyLists(n - 1),
                          k \in PATTERN_MAP_KEYS \cup {"dashes"}}

InitClean ==
    /\ store = <<>>
    /\ last = InitLast
    /\ nloads = 0
    /\ call \in {[fn |-> "clean_string_with_named_patterns", string |-> Str(s),
                   pattern_keys |-> ks] :
                    s \in CleanStrings,
                    ks \in UNION {PatternKeyLists(n) : n \in 0..MaxPatterns}}
    /\ ret = NoRet
    /\ NoObjects

CleanStringWithNamedPatterns ==
    /\ call.fn = "clean_string_with_named_patterns"
    /\ ret.exc = "pending"
    /\ ret' = clean_string_with_named_patterns(call.string, call.pattern_keys)
    /\ UNCHANGED <<store, last, nloads, call, objects>>

NextClean == CleanStringWithNamedPatterns

SpecClean == InitClean /\ [][NextClean]_vars

(***************************************************************************)
(* format_column_name as a pure function, in its two modules.              *)
(***************************************************************************)
NamePieces ==
    {s_total, s_population, s_populationa, s_census, <<"x">>, <<"T">>, <<"1">>,
     <<"_">>, <<" ">>, <<".">>, <<"%">>, <<"'">>}

RECURSIVE NamesOfParts(_)
NamesOfParts(n) ==
    IF n = 0 THEN {<<>>}
    ELSE {t \o p : t \in NamesOfParts(n - 1), p \in NamePieces}

ColumnNames == UNION {NamesOfParts(n) : n \in 0..MaxNameParts}

InitFormat ==
    /\ store = <<>>
    /\ last = InitLast
    /\ nloads = 0
    /\ call \in {[fn |-> "format_column_name", module |-> m, name |-> Str(s)] :
                    m \in {"datacore.formatting", "datacore.df_manager.formatting"},
                    s \in ColumnNames}
    /\ ret = NoRet
    /\ NoObjects

\* datacore/formatting.py
FormatColumnName ==
    /\ call.fn = "format_column_name"
    /\ call.module = "datacore.formatting"
    /\ ret.exc = "pending"
    /\ ret' = Return(Str(format_column_name(call.name.s)))
    /\ UNCHANGED <<store, last, nloads, call, objects>>

\* datacore/df_manager/formatting.py
DfManagerFormatColumnName ==
    /\ call.fn = "format_column_name"
    /\ call.module = "datacore.df_manager.formatting"
    /\ ret.exc = "pending"
    /\ ret' = Return(Str(df_manager_format_column_name(call.name.s)))
    /\ UNCHANGED <<store, last, nloads, call, objects>>

NextFormat == FormatColumnName \/ DfManagerFormatColumnName

SpecFormat == InitFormat /\ [][NextFormat]_vars

(***************************************************************************)
(* format_column_names as a pure function: a table of at most MaxCols      *)
(* columns and MaxRows rows and the inplace flag are drawn.                *)
(***************************************************************************)
\* column labels: missing, flagged, plain, of several words, a number
NameLabels == {NaN, Str(s_Unnamed_1), Str(s_Total), Str(s_B_y), Num(1)}

\* cells of the first two rows, the rows the function reads; the rows
\* below them hold one text
NameCells == {NaN, Str(s_Census_x)}

\* the rows of a table of ncols columns and nrows rows
NameRows(ncols, nrows) ==
    {[r \in 1..nrows |-> IF r <= 2 THEN top[r] ELSE [c \in 1..ncols |-> Str(s_x)]] :
        top \in [1..(IF nrows < 2 THEN nrows ELSE 2) -> [1..ncols -> NameCells]]}

InitNames ==
    /\ store = <<>>
    /\ last = InitLast
    /\ nloads = 0
    /\ \E ncols \in 0..MaxCols, nrows \in 0..MaxRows, inplace \in BOOLEAN :
          \E cols \in [1..ncols -> NameLabels], rows \in NameRows(ncols, nrows) :
              call = [fn |-> "format_column_names",
                      df |-> [columns |-> cols, rows |-> rows], inplace |-> inplace]
    /\ ret = NoRet
    /\ NoObjects

FormatColumnNames ==
    /\ call.fn = "format_column_names"
    /\ ret = NoRet
    /\ ret' = format_column_names(call.df, call.inplace)
    /\ UNCHANGED <<store, last, nloads, call, objects>>

NextNames == FormatColumnNames

SpecNames == InitNames /\ [][NextNames]_vars

(***************************************************************************)
(* The rows of an index sheet: process_titles_row on one row, and          *)
(* get_sheet_titles on a workbook.                                         *)
(***************************************************************************)
\* str(n) of a natural number
RECURSIVE DigitsOf(_)
DigitsOf(n) ==
    IF n < 10 THEN <<Digits[n + 1]>>
    ELSE DigitsOf(n \div 10) \o <<Digits[(n % 10) + 1]>>

\* the cell "Table N"
TableN(n) == Str(s_Table \o <<" ">> \o DigitsOf(n))

\* first cells of an index row: every "Table N", and cells that are no
\* table row
TableCells ==
    {TableN(n) : n \in 1..MaxTableNo}
        \cup {Str(s_Table), Str(s_Introduction), Str(s_POP_01), Num(1)}

\* the first cells of the rows after the first row
LaterTableCells == {TableN(2), TableN(10), Str(s_Table), NaN}

TitleCells == {Str(s_Population), Str(s_Hawaii_Income), Str(s_Hawaii_mojibake)}

\* the rows of a "Titles" sheet: at most MaxRows rows of two cells
TitleSheetRows ==
    UNION {{[i \in 1..n |-> IF i = 1 THEN first ELSE later[i]] :
               first \in {<<t, c>> : t \in TableCells, c \in TitleCells},
               later \in [1..n -> {<<t, Str(s_Population)>> : t \in LaterTableCells}]} :
           n \in 1..MaxRows}

InitTitles ==
    /\ store = <<>>
    /\ last = InitLast
    /\ nloads = 0
    /\ \/ \E table \in TableCells, table_name \in TitleCells,
             title_sheet_type \in {"normal", "wiki", "other"},
             title_cleaning_patterns \in {<<>>, <<"hyphens">>} :
               call = [fn |-> "process_titles_row", row |-> <<table, table_name>>,
                       title_sheet_type |-> title_sheet_type,
                       title_cleaning_patterns |-> title_cleaning_patterns]
       \/ \E rows \in TitleSheetRows \cup {<<>>, <<<<TableN(1)>>>>} :
             \E key \in {s_Titles, s_Title_Index} :
               call = [fn |-> "get_sheet_titles",
                       df_dict |-> <<Sheet(key, TitleColumns, rows)>>]
    /\ ret = NoRet
    /\ NoObjects

ProcessTitlesRow ==
    /\ call.fn = "process_titles_row"
    /\ ret = NoRet
    /\ ret' = process_titles_row(call.row, call.title_sheet_type,
                                 call.title_cleaning_patterns)
    /\ UNCHANGED <<store, last, nloads, call, objects>>

GetSheetTitles ==
    /\ call.fn = "get_sheet_titles"
    /\ ret = NoRet
    /\ ret' = get_sheet_titles(call.df_dict)
    /\ UNCHANGED <<store, last, nloads, call, objects>>

NextTitles == ProcessTitlesRow \/ GetSheetTitles

SpecTitles == InitTitles /\ [][NextTitles]_vars

(***************************************************************************)
(* extract_table_names as a pure function: a workbook of one index sheet   *)
(* of at most MaxIndexRows rows and the mode are drawn.                    *)
(***************************************************************************)
\* rows of an index sheet: two table rows, the heading row, the
\* Introduction row, a banner row with a missing cell, a row of other text
IndexRowPool ==
    {<<Str(s_Table_1), Str(s_Population_by_Island)>>,
     <<Str(s_Table_2), Str(s_Housing_Units)>>,
     <<Str(s_Table), Str(s_Title)>>,
     <<Str(s_Introduction), Str(s_About)>>,
     <<Str(s_OHA_Data_Book), NaN>>,
     <<Str(s_OHA_Data_Book), Str(s_About)>>}

InitExtract ==
    /\ store = <<>>
    /\ last = InitLast
    /\ nloads = 0
    /\ \E n \in 0..MaxIndexRows, title_sheet_type \in {"normal", "wiki", "table"} :
          \E rows \in [1..n -> IndexRowPool] :
              call = [fn |-> "extract_table_names",
                      df_dict |-> <<Sheet(s_Titles, TitleColumns, rows)>>,
                      titles_sheet_name |-> Str(s_Titles),
                      kwargs |-> [DefaultKwargs EXCEPT
                                     !.title_sheet_type = title_sheet_type]]
    /\ ret = NoRet
    /\ NoObjects

ExtractTableNames ==
    /\ call.fn = "extract_table_names"
    /\ ret = NoRet
    /\ ret' = extract_table_names(call.df_dict, call.titles_sheet_name, call.kwargs)
    /\ UNCHANGED <<store, last, nloads, call, objects>>

NextExtract == ExtractTableNames

SpecExtract == InitExtract /\ [][NextExtract]_vars

(***************************************************************************)
(* Properties of the manager.                                              *)
(***************************************************************************)
IsLoad == last.op \in {"load_from_url", "load_from_excel"}

\* the sheet keys of the workbook of the last load, in sheet order
LastSheetKeys == [i \in 1..Len(Workbook(last.wb)) |-> Workbook(last.wb)[i].key]

\* the last load ran with the default mode, no cleaning patterns and no
\* override of the index sheet
PlainKwargs(drop) == last.kwargs = [DefaultKwargs EXCEPT !.drop_title_sheet = drop]

\* the index sheet the heuristic resolves: the first key that contains "Title"
HasIndexKey == \E i \in 1..Len(LastSheetKeys) : Contains(LastSheetKeys[i], s_Title)
IndexKey ==
    LastSheetKeys[CHOOSE i \in 1..Len(LastSheetKeys) :
                     /\ Contains(LastSheetKeys[i], s_Title)
                     /\ \A j \in 1..(i - 1) : ~Contains(LastSheetKeys[j], s_Title)]

\* the keys of the sheets the last load goes over, in workbook order: all
\* of them, but for the index sheet when it is dropped
ProcessedKeys ==
    SelectSeq(LastSheetKeys,
              LAMBDA k : ~(last.kwargs.drop_title_sheet /\ HasIndexKey /\ k = IndexKey))

\* the sheet names the entries of a dict come from, in the dict's order
SheetNames(d) == [i \in 1..Len(d) |-> d[i].value.original_sheet_name]

\* the number of sheets other than "Introduction" among the first n of a list
RECURSIVE OthersAmong(_, _)
OthersAmong(keys, n) ==
    IF n = 0 THEN 0
    ELSE OthersAmong(keys, n - 1) + (IF keys[n] # s_Introduction THEN 1 ELSE 0)

\* C1: a load with overwrite=False on a manager that holds an entry raises
\* ValueError before the source is read, and the dict is what it was.
C1_OneShotLoad ==
    (IsLoad /\ ~last.overwrite /\ last.before # <<>>)
        => (last.exc = "ValueError" /\ ~last.fetched /\ store = last.before)

C1_Witness ==
    /\ IsLoad /\ ~last.overwrite /\ last.before # <<>>
    /\ last.exc = "ValueError"
    /\ Len(store) >= 2

\* C2: after a successful load with overwrite=True into a manager that
\* holds entries, the dict is exactly what the same load leaves in an empty
\* manager: nothing of the earlier load remains.
C2_OverwriteReplacesAll ==
    (IsLoad /\ last.overwrite /\ last.before # <<>> /\ last.exc = "")
        => LET fresh == Load(<<>>, Workbook(last.wb), TRUE, last.kwargs).store
           IN  {store[i] : i \in 1..Len(store)} = {fresh[i] : i \in 1..Len(fresh)}

\* C3: after a successful load into an empty manager, the entries are the
\* processed sheets in workbook order, "Introduction" under the key
\* "Introduction" and the k-th other sheet under the integer k, so that the
\* integer keys are 1..n.
C3_DenseKeys ==
    (IsLoad /\ last.before = <<>> /\ last.exc = "")
        => /\ SheetNames(store) = ProcessedKeys
           /\ \A i \in 1..Len(store) :
                 store[i].key = IF ProcessedKeys[i] = s_Introduction
                                THEN Str(s_Introduction)
                                ELSE Num(OthersAmong(ProcessedKeys, i))
           /\ {k.n : k \in {x \in Keys(store) : x.t = "num"}}
                  = 1..OthersAmong(ProcessedKeys, Len(ProcessedKeys))

C3_Witness ==
    /\ IsLoad /\ last.before = <<>> /\ last.exc = ""
    /\ last.kwargs.drop_title_sheet
    /\ Len(store) >= 3
    /\ store[1].key = Str(s_Introduction)
    /\ store[3].key = Num(2)

\* C4: a load that raises leaves the dict as it was before the load.
C4_NoPartialState ==
    (IsLoad /\ last.exc # "") => store = last.before

\* C5: when there is no override and no sheet key contains "Title", a load
\* that gets to read its source raises KeyError and the dict is what it was.
C5_NoIndexSheet ==
    (IsLoad /\ last.fetched /\ ~last.kwargs.has_titles_sheet_name /\ ~HasIndexKey)
        => (last.exc = "KeyError" /\ store = last.before)

C5_Witness ==
    /\ IsLoad /\ last.fetched /\ ~last.kwargs.has_titles_sheet_name /\ ~HasIndexKey
    /\ last.exc = "KeyError"
    /\ last.before # <<>>

\* the names of the entries of a dict, by key
NameUnder(d, key) == d[CHOOSE i \in 1..Len(d) : d[i].key = key].value.name

\* C6 as stated: the workbook ["Titles", "01.01", "01.02"] with the index
\* rows "Table 1" and "Table 2" loads to the keys {1, 2}, named "Population
\* by Island" and "Housing Units", with no entry for the Titles sheet.
C6_ScenarioAsStated ==
    (IsLoad /\ last.wb = "scenario" /\ last.before = <<>>
            /\ (PlainKwargs(TRUE) \/ PlainKwargs(FALSE)))
        => /\ last.exc = ""
           /\ Keys(store) = {Num(1), Num(2)}
           /\ NameUnder(store, Num(1)) = Str(s_Population_by_Island)
           /\ NameUnder(store, Num(2)) = Str(s_Housing_Units)
           /\ \A i \in 1..Len(store) : store[i].value.original_sheet_name # s_Titles

\* C6 amended: with drop_title_sheet=True that workbook loads to the keys
\* {1, 2} and no entry for the Titles sheet, the entries named by their sheet
\* keys "01.01" and "01.02"; they are named "Population by Island" and
\* "Housing Units" when the index rows read "Table 1.01" and "Table 1.02";
\* without drop_title_sheet the Titles sheet is kept under key 1.
C6_ScenarioAmended ==
    (IsLoad /\ last.before = <<>>)
        => /\ (last.wb \in {"scenario", "dotted"} /\ PlainKwargs(TRUE))
                => /\ last.exc = ""
                   /\ Keys(store) = {Num(1), Num(2)}
                   /\ SheetNames(store) = <<s_01_01, s_01_02>>
                   /\ NameUnder(store, Num(1)) =
                          IF last.wb = "dotted" THEN Str(s_Population_by_Island)
                          ELSE Str(s_01_01)
                   /\ NameUnder(store, Num(2)) =
                          IF last.wb = "dotted" THEN Str(s_Housing_Units)
                          ELSE Str(s_01_02)
           /\ (last.wb = "scenario" /\ PlainKwargs(FALSE))
                => /\ last.exc = ""
                   /\ Keys(store) = {Num(1), Num(2), Num(3)}
                   /\ SheetNames(store) = <<s_Titles, s_01_01, s_01_02>>
                   /\ NameUnder(store, Num(2)) = Str(s_01_01)
                   /\ NameUnder(store, Num(3)) = Str(s_01_02)

C6_Witness ==
    /\ IsLoad /\ last.before = <<>> /\ last.wb = "scenario" /\ PlainKwargs(TRUE)
    /\ Keys(store) = {Num(1), Num(2)}
    /\ NameUnder(store, Num(1)) = Str(s_01_01)

\* the title map of the last load, when the load got as far as building it
LastTitleMap == extract_table_names(Workbook(last.wb), Str(IndexKey), last.kwargs)
BuiltTitleMap ==
    /\ IsLoad /\ last.fetched /\ ~last.kwargs.has_titles_sheet_name /\ HasIndexKey
    /\ LastTitleMap.exc = ""

\* the title recorded for a sheet key in the title map
HasTitle(key) == \E i \in 1..Len(LastTitleMap.val) : LastTitleMap.val[i].id = Str(key)
TitleOf(key) ==
    LastTitleMap.val[CHOOSE i \in 1..Len(LastTitleMap.val) :
                         LastTitleMap.val[i].id = Str(key)].name

\* processing the sheet raises whatever the sheet is called: its first
\* column is not one of strings, or it has no column at all
SheetItselfRaises(sheet) ==
    LET extracted == extract_metadata([columns |-> sheet.df.columns,
                                       rows |-> DropNaAllReset(sheet.df.rows)],
                                      0, TRUE)
    IN  extracted.exc # "" \/ CategorizeRaises(extracted.lines)

\* C7: every entry a load writes into an empty manager is named by the
\* title the title map has under the entry's sheet key, and by the sheet
\* key itself when the map has none; and when the loop stops at a sheet, it
\* is a sheet that has a title which is not a string, or one whose own
\* content raises: never one that only lacks a title.
C7_NameFallback ==
    (BuiltTitleMap /\ last.before = <<>>)
        => /\ \A i \in 1..Len(store) :
                 LET key == store[i].value.original_sheet_name
                 IN  store[i].value.name = IF HasTitle(key) THEN TitleOf(key)
                                           ELSE Str(key)
           /\ last.exc # "" =>
                 LET stopped == CHOOSE sh \in {Workbook(last.wb)[j] :
                                                  j \in 1..Len(Workbook(last.wb))} :
                                    sh.key = ProcessedKeys[Len(store) + 1]
                 IN  \/ SheetItselfRaises(stopped)
                     \/ HasTitle(stopped.key) /\ TitleOf(stopped.key).t # "str"

C7_Witness ==
    /\ BuiltTitleMap /\ last.before = <<>> /\ last.exc = ""
    /\ \E i, j \in 1..Len(store) :
          /\ ~HasTitle(store[i].value.original_sheet_name)
          /\ store[i].value.name = Str(store[i].value.original_sheet_name)
          /\ HasTitle(store[j].value.original_sheet_name)
          /\ store[j].value.name = Str(s_Population_by_Island)

\* C8: after a successful load, a first one or an overwrite, iterating the
\* manager gives the entries of the sheets that load processed, in the
\* order it processed them.
C8_IterationOrder ==
    (IsLoad /\ last.exc = "")
        => [i \in 1..Len(Iter(store)) |-> Iter(store)[i].original_sheet_name]
               = ProcessedKeys

(***************************************************************************)
(* Properties of find_titles_sheet_name.                                   *)
(***************************************************************************)
Returned == call.fn = "find_titles_sheet_name" /\ ret # NoRet

\* C9: with titles_sheet_name given, find_titles_sheet_name returns it,
\* whatever the sheet keys are.
C9_OverrideWins ==
    (Returned /\ call.kwargs.has_titles_sheet_name)
        => ret = Return(call.kwargs.titles_sheet_name)

C9_Witness ==
    /\ Returned /\ call.kwargs.has_titles_sheet_name
    /\ Len(call.df_dict_keys) >= 2
    /\ call.df_dict_keys[1] = s_Titles
    /\ call.df_dict_keys[2] = s_01_01
    /\ ret = Return(Str(s_01_01))

\* a key contains "title" in any letter case
ContainsTitleAnyCase(key) == Contains(Lower(key), s_title)

\* C10: without titles_sheet_name, find_titles_sheet_name returns the first
\* key that contains "title" in any letter case, and raises KeyError only
\* when no key does.
C10_CaseInsensitiveFirstMatch ==
    (Returned /\ ~call.kwargs.has_titles_sheet_name)
        => LET keys == call.df_dict_keys
               hits == {i \in 1..Len(keys) : ContainsTitleAnyCase(keys[i])}
           IN  IF hits = {} THEN ret = Raise("KeyError")
               ELSE ret = Return(Str(keys[CHOOSE i \in hits : \A j \in hits : i <= j]))

(***************************************************************************)
(* Properties of extract_metadata.                                         *)
(***************************************************************************)
\* extract_metadata has returned
MetaDone == call.fn = "extract_metadata" /\ ret.exc = ""

\* the number of cells of a row that are not missing
NonMissing(row) == Cardinality({j \in 1..Len(row) : ~IsNa(row[j])})

\* the rows that a mask leaves, in their order
RECURSIVE Unmasked(_, _)
Unmasked(rows, mask) ==
    IF rows = <<>> THEN <<>>
    ELSE (IF Head(mask) THEN <<>> ELSE <<Head(rows)>>)
             \o Unmasked(Tail(rows), Tail(mask))

\* C11 as stated: the rows taken as metadata and the rows returned as data
\* are disjoint and together are all the rows of the table, the data rows
\* in their order under a dense index, and every row taken as metadata has
\* exactly one cell that is not missing.
C11_PartitionAsStated ==
    (MetaDone /\ call.remove_rows)
        => /\ Len(ret.mask) = Len(call.df.rows)
           /\ ret.data.rows = Unmasked(call.df.rows, ret.mask)
           /\ \A i \in 1..Len(call.df.rows) :
                  ret.mask[i] => NonMissing(call.df.rows[i]) = 1

\* C11 amended: the split is a partition as stated, and every row taken as
\* metadata has at most one cell that is not missing, in the first column;
\* a row with no cell at all is taken as metadata too.
C11_PartitionAmended ==
    (MetaDone /\ call.remove_rows)
        => /\ Len(ret.mask) = Len(call.df.rows)
           /\ ret.data.rows = Unmasked(call.df.rows, ret.mask)
           /\ \A i \in 1..Len(call.df.rows) :
                  LET row == call.df.rows[i]
                  IN  /\ ret.mask[i] => \A j \in 2..Len(row) : IsNa(row[j])
                      /\ ret.mask[i] => NonMissing(row) <= 1
                      /\ NonMissing(row) = 0 => ret.mask[i]

C11_Witness ==
    /\ MetaDone /\ call.remove_rows /\ call.column_idx = 0
    /\ call.df.rows = << <<Str(s_Source_Census), Str(s_Oahu)>>,
                         <<Str(s_Source_Census), NaN>> >>
    /\ ret.mask = <<FALSE, TRUE>>
    /\ ret.data.rows = << <<Str(s_Source_Census), Str(s_Oahu)>> >>

\* C12: extract_metadata(table, column_idx=c) takes a row as metadata if
\* and only if every cell of the row outside column c is missing.
C12_MaskFollowsColumnIdx ==
    MetaDone
        => \A i \in 1..Len(call.df.rows) :
               ret.mask[i] <=> \A j \in 1..Len(call.df.rows[i]) :
                                  j # call.column_idx + 1 => IsNa(call.df.rows[i][j])

(***************************************************************************)
(* Properties of categorize_metadata.                                      *)
(***************************************************************************)
\* categorize_metadata has returned
CatDone == call.fn = "categorize_metadata" /\ ret.exc = ""

\* a line begins with "source" in any letter case
IsSourceLine(line) == StartsWith(Lower(line.s), s_source)

\* the lines of an order that are source lines, and those that are not
SourceLinesOf(order) == SelectSeq(order, IsSourceLine)
NoteLinesOf(order) == SelectSeq(order, LAMBDA line : ~IsSourceLine(line))

\* t is s without the whitespace at its two ends
IsStripOf(t, s) ==
    \E a, b \in 0..Len(s) :
        /\ a + b <= Len(s)
        /\ t = SubSeq(s, a + 1, Len(s) - b)
        /\ \A i \in 1..a : IsSpace(s[i])
        /\ \A i \in (Len(s) - b + 1)..Len(s) : IsSpace(s[i])
        /\ t # <<>> => ~IsSpace(t[1]) /\ ~IsSpace(t[Len(t)])
        /\ t = <<>> => a = Len(s)

\* t is what follows the first ":" of s, or s when it has no ":"
IsAfterFirstColon(t, s) ==
    IF \E i \in 1..Len(s) : s[i] = ":"
    THEN \E i \in 1..Len(s) :
             /\ s[i] = ":"
             /\ \A j \in 1..(i - 1) : s[j] # ":"
             /\ t = SubSeq(s, i + 1, Len(s))
    ELSE t = s

\* t is s without its first six characters ("source") and without the
\* ":" and whitespace that follow them
IsWithoutSourcePrefix(t, s) ==
    \E k \in 6..Len(s) :
        /\ \A i \in 7..k : s[i] = ":" \/ IsSpace(s[i])
        /\ k < Len(s) => ~(s[k + 1] = ":" \/ IsSpace(s[k + 1]))
        /\ t = SubSeq(s, k + 1, Len(s))

\* C13: categorize_metadata returns a record with a "notes" list, empty
\* when no line is a note; "source" is a bare string when there is exactly
\* one source line and a list of every source string when there are two or
\* more; {"Source: Census Bureau"} gives source "Census Bureau", notes [].
C13_NotesAndSourceShape ==
    CatDone
        => \E order \in PopOrders(call.metadata_set) :
               /\ "notes" \in ret.keys
               /\ ret.notes = [i \in 1..Len(NoteLinesOf(order)) |-> NoteLinesOf(order)[i].s]
               /\ Len(SourceLinesOf(order)) = 1
                      => "source" \in ret.keys /\ ret.source.t = "str"
               /\ Len(SourceLinesOf(order)) >= 2
                      => /\ "source" \in ret.keys /\ ret.source.t = "list"
                         /\ Len(ret.source.v) = Len(SourceLinesOf(order))
               /\ call.metadata_set = {Str(s_Source_Census_Bureau)}
                      => ret.source = [t |-> "str", v |-> <<s_Census_Bureau>>]

\* C14 as stated: every line is in exactly one bucket; a line that begins
\* with "source" in any letter case is stored under source without the
\* "source" prefix and the ":" and whitespace after it; every other line is
\* stored under notes as it is.
C14_BucketsAsStated ==
    CatDone
        => \E order \in PopOrders(call.metadata_set) :
               /\ ret.notes = [i \in 1..Len(NoteLinesOf(order)) |-> NoteLinesOf(order)[i].s]
               /\ Len(ret.source.v) = Len(SourceLinesOf(order))
               /\ \A i \in 1..Len(SourceLinesOf(order)) :
                      \E rest \in {SubSeq(SourceLinesOf(order)[i].s, k, Len(SourceLinesOf(order)[i].s)) :
                                      k \in 1..(Len(SourceLinesOf(order)[i].s) + 1)} :
                          /\ IsWithoutSourcePrefix(rest, SourceLinesOf(order)[i].s)
                          /\ IsStripOf(ret.source.v[i], rest)

\* C14 amended: every line is in exactly one bucket; a line that begins
\* with "source" in any letter case is stored under source as what follows
\* its first ":", or as the whole line when it has no ":", without the
\* whitespace at the two ends; every other line is stored under notes as
\* it is.
C14_BucketsAmended ==
    CatDone
        => \E order \in PopOrders(call.metadata_set) :
               /\ ret.notes = [i \in 1..Len(NoteLinesOf(order)) |-> NoteLinesOf(order)[i].s]
               /\ Len(ret.source.v) = Len(SourceLinesOf(order))
               /\ \A i \in 1..Len(SourceLinesOf(order)) :
                      \E rest \in {SubSeq(SourceLinesOf(order)[i].s, k, Len(SourceLinesOf(order)[i].s)) :
                                      k \in 1..(Len(SourceLinesOf(order)[i].s) + 1)} :
                          /\ IsAfterFirstColon(rest, SourceLinesOf(order)[i].s)
                          /\ IsStripOf(ret.source.v[i], rest)

C14_Witness ==
    /\ CatDone
    /\ call.metadata_set = {Str(s_SOURCE_A_nocolon), Str(s_source_a_b), Str(s_Note_x)}
    /\ ret.notes = <<s_Note_x>>
    /\ ret.source = [t |-> "list", v |-> <<s_SOURCE_A_nocolon, s_a_b>>]

(***************************************************************************)
(* Properties of extract_years_from_string.                                *)
(***************************************************************************)
YearsDone == call.fn = "extract_years_from_string" /\ ret.exc = ""

\* a hyphen, plain or non-breaking
IsHyphen(c) == c = "-" \/ c = "U+2011"

\* a range "dddd - dddd" is written at s[i], over len characters
IsRangeAt(s, i, len) ==
    \E a, b \in 0..Len(s) :
        /\ len = 4 + a + 1 + b + 4
        /\ i + len - 1 <= Len(s)
        /\ \A k \in i..(i + 3) : IsDigit(s[k])
        /\ \A k \in (i + 4)..(i + 3 + a) : IsSpace(s[k])
        /\ IsHyphen(s[i + 4 + a])
        /\ \A k \in (i + 5 + a)..(i + 4 + a + b) : IsSpace(s[k])
        /\ \A k \in (i + 5 + a + b)..(i + len - 1) : IsDigit(s[k])

\* a 4-digit number stands alone at s[i]: no letter, digit or underscore
\* touches it
IsStandaloneAt(s, i) ==
    /\ i + 3 <= Len(s)
    /\ \A k \in i..(i + 3) : IsDigit(s[k])
    /\ i > 1 => ~IsWordChar(s[i - 1])
    /\ i + 4 <= Len(s) => ~IsWordChar(s[i + 4])

\* the characters a find at s[i] covers: the range, or the four digits
SpanAt(s, i) ==
    IF \E len \in 9..Len(s) : IsRangeAt(s, i, len)
    THEN CHOOSE len \in 9..Len(s) : IsRangeAt(s, i, len)
    ELSE 4

\* the number the four characters at s[i] write
YearAt(s, i) ==
    LET d == [k \in 0..3 |-> CHOOSE n \in 0..9 : Digits[n + 1] = s[i + k]]
    IN  ((d[0] * 10 + d[1]) * 10 + d[2]) * 10 + d[3]

\* the item expected for a find at s[i]
ExpectedItem(s, i) ==
    IF \E len \in 9..Len(s) : IsRangeAt(s, i, len)
    THEN [t |-> "range", a |-> YearAt(s, i), b |-> YearAt(s, i + SpanAt(s, i) - 4)]
    ELSE [t |-> "int", a |-> YearAt(s, i), b |-> 0]

\* the places of s where a range or a standalone number begins
YearPlaces(s) ==
    {i \in 1..Len(s) : IsStandaloneAt(s, i) \/ \E len \in 9..Len(s) : IsRangeAt(s, i, len)}

\* the k-th smallest element of a set of numbers
KthOf(P, k) == CHOOSE p \in P : Cardinality({q \in P : q < p}) = k - 1

\* C15: extract_years_from_string returns, from left to right, one tuple
\* for each range "dddd - dddd" as written and one int for each standalone
\* 4-digit number, duplicates kept; a number inside a range that was found
\* is not given again as a single year; the three titles of the
\* docstring give [2006], [(2006, 2010)] and [2006, (2008, 2010), 2012].
C15_YearsInOrder ==
    YearsDone
        => /\ \E P \in SUBSET YearPlaces(call.title.s) :
                  /\ \A p \in YearPlaces(call.title.s) :
                         p \in P <=> ~\E q \in P : q < p /\ p < q + SpanAt(call.title.s, q)
                  /\ Len(ret.val) = Cardinality(P)
                  /\ \A k \in 1..Len(ret.val) :
                         ret.val[k] = ExpectedItem(call.title.s, KthOf(P, k))
           /\ call.title.s = s_Population_2006
                  => ret.val = <<[t |-> "int", a |-> 2006, b |-> 0]>>
           /\ call.title.s = s_Housing_2006_2010
                  => ret.val = <<[t |-> "range", a |-> 2006, b |-> 2010]>>
           /\ call.title.s = s_Income_mixed
                  => ret.val = <<[t |-> "int", a |-> 2006, b |-> 0],
                                 [t |-> "range", a |-> 2008, b |-> 2010],
                                 [t |-> "int", a |-> 2012, b |-> 0]>>

C15_Witness ==
    /\ YearsDone
    /\ call.title.s = s_Income_mixed
    /\ ret.val = <<[t |-> "int", a |-> 2006, b |-> 0],
                   [t |-> "range", a |-> 2008, b |-> 2010],
                   [t |-> "int", a |-> 2012, b |-> 0]>>

(***************************************************************************)
(* Properties of clean_string_with_named_patterns.                         *)
(***************************************************************************)
CleanDone == call.fn = "clean_string_with_named_patterns" /\ ret.exc # "pending"

\* the string the rules named by keys give, the last rule applied to what
\* the rules before it give
RECURSIVE RulesInOrder(_, _)
RulesInOrder(keys, s) ==
    IF keys = <<>> THEN s
    ELSE ApplyPattern(keys[Len(keys)],
                      RulesInOrder(SubSeq(keys, 1, Len(keys) - 1), s))

\* C16: clean_string_with_named_patterns applies the named rules in the
\* order given, each to the result of the one before; when a name is not
\* in the pattern table, at whatever place of the list, it raises a
\* KeyError that names that key and returns nothing.
C16_RulesInOrderOrKeyError ==
    CleanDone
        => LET keys == call.pattern_keys
               unknown == {i \in 1..Len(keys) : keys[i] \notin PATTERN_MAP_KEYS}
           IN  IF unknown = {}
               THEN ret = Return(Str(RulesInOrder(keys, call.string.s)))
               ELSE /\ ret.exc = "KeyError"
                    /\ ret.val = None
                    /\ ret.key = keys[CHOOSE i \in unknown : \A j \in unknown : i <= j]

\* the rules are applied in order, and the order shows in the result
C16_Witness ==
    /\ CleanDone
    /\ call.string = Str(s_nbsp_dots)
    /\ call.pattern_keys = <<"non_breaking_space", "whitespace">>
    /\ ret = Return(Str(<<"a", "_", "b", "_", "c">>))


(***************************************************************************)
(* format_column_name on names that are formatted keys already.            *)
(***************************************************************************)
FormatDone == call.fn = "format_column_name" /\ ret.exc # "pending"

\* the tokens of x, the underscores separating them
RECURSIVE UnderscoreTokens(_, _, _)
UnderscoreTokens(x, i, cur) ==
    IF i > Len(x) THEN <<cur>>
    ELSE IF x[i] = "_" THEN <<cur>> \o UnderscoreTokens(x, i + 1, <<>>)
    ELSE UnderscoreTokens(x, i + 1, Append(cur, x[i]))

\* x is made of lowercase tokens (letters and digits) separated by
\* underscores, and no token is an ignored word
IsFormattedKey(x) ==
    LET tokens == UnderscoreTokens(x, 1, <<>>)
    IN  /\ \A i \in 1..Len(x) : IsLower(x[i]) \/ IsDigit(x[i]) \/ x[i] = "_"
        /\ x # <<>> => x[1] # "_" /\ x[Len(x)] # "_"
        /\ \A k \in 1..Len(tokens) : tokens[k] \notin IGNORED_WORDS

\* x is a word the substitution table replaces
IsSubstitutedWord(x) == \E i \in 1..Len(SUBSTITUTION_MAP) : SUBSTITUTION_MAP[i][1] = x

\* C17 as stated: whenever format_column_name (of either module) is given a
\* name that is a formatted key already -- lowercase tokens separated by
\* underscores, none of them an ignored word -- it returns that name.
C17_FixedPointAsStated ==
    (FormatDone /\ IsFormattedKey(call.name.s)) => ret = Return(call.name)

\* C17 amended: whenever format_column_name (of either module) is given a
\* name that is a formatted key already and that is not, as a whole, a word
\* of the substitution table, it returns that name; given a word of the
\* substitution table it returns the substitute.
C17_FixedPointAmended ==
    (FormatDone /\ IsFormattedKey(call.name.s)) =>
        ret = Return(Str(SubstitutionGet(call.name.s)))

\* a key of several tokens, one of them a word of the substitution table,
\* has gone through the function that also applies the named patterns
C17_Witness ==
    /\ FormatDone
    /\ IsFormattedKey(call.name.s)
    /\ call.name.s = <<"x", "_">> \o s_populationa
    /\ call.module = "datacore.df_manager.formatting"


(***************************************************************************)
(* format_column_names: the labels it makes, and the tables it refuses.    *)
(***************************************************************************)
NamesDone == call.fn = "format_column_names" /\ ret # NoRet

NamesReturned == NamesDone /\ ret.exc = ""

\* the cell under column i that the label is made with: the one of the
\* first row, or the one of the second row when that is missing
LabelCell(df, i) ==
    IF df.rows[1][i].t = "nan" THEN df.rows[2][i] ELSE df.rows[1][i]

\* column j is the nearest column before column i that is not flagged
IsNearestValidBefore(df, j, i) ==
    /\ j < i
    /\ ~IsFlagged(df.columns[j])
    /\ \A k \in (j + 1)..(i - 1) : IsFlagged(df.columns[k])

\* C18: format_column_names gives one formatted label per column, in column
\* order; the label of a column whose raw label is missing or contains the
\* flag word is format_column_name of the raw label of the nearest column
\* before it that is not flagged, a space, and the column's first-row cell
\* (its second-row cell when the first is missing) -- at every position of
\* the flagged column, the first column included.
C18_SynthesizedLabels ==
    NamesReturned =>
        /\ Len(ret.names) = Len(call.df.columns)
        /\ \A i \in 1..Len(call.df.columns) :
              IF IsFlagged(call.df.columns[i])
              THEN \E j \in 1..Len(call.df.columns) :
                      /\ IsNearestValidBefore(call.df, j, i)
                      /\ ret.names[i] =
                            Str(format_column_name(
                                call.df.columns[j].s \o <<" ">>
                                    \o PyStr(LabelCell(call.df, i))))
              ELSE ret.names[i] = Str(format_column_name(call.df.columns[i].s))

\* C19: for a table of fewer than two rows, the table without rows
\* included, format_column_names raises an error and the table keeps its
\* column labels, with inplace and without.
C19_FewRowsRefused ==
    (NamesDone /\ Len(call.df.rows) < 2) =>
        /\ ret.exc = "ValueError"
        /\ ret.df = call.df

\* a table of one row and several columns, one of them flagged, has been
\* handed over with inplace
C19_Witness ==
    /\ NamesDone
    /\ Len(call.df.rows) = 1
    /\ Len(call.df.columns) >= 2
    /\ \E i \in 1..Len(call.df.columns) : IsFlagged(call.df.columns[i])
    /\ call.inplace
    /\ ret.exc = "ValueError"


(***************************************************************************)
(* The table code made of an index row "Table N".                          *)
(***************************************************************************)
\* the cell is "Table N" with N from 1 to 99
IsTableN(cell) == \E n \in 1..99 : cell = TableN(n)

TableNo(cell) == CHOOSE n \in 1..99 : cell = TableN(n)

\* N with a zero before it when it has one digit
ZeroPadTwo(n) == IF n < 10 THEN s_0 \o DigitsOf(n) ELSE DigitsOf(n)

\* the code is the two-digit code of the cell "Table N", and it is "0" and
\* the last token of the cell
IsTwoDigitCode(id, cell) ==
    /\ id.t = "str"
    /\ Len(id.s) = 2
    /\ id.s = ZeroPadTwo(TableNo(cell))
    /\ id.s = s_0 \o SplitSpaceLast(cell.s)

\* C20: in the normal mode, for every index row "Table N" with N from 1 to
\* 99, the table code is N padded with zeros to two digits, a code of two
\* characters, and it is "0" followed by the last token of the first cell;
\* so it is for the rows get_sheet_titles reads.
C20_TwoDigitTableId ==
    /\ (/\ call.fn = "process_titles_row"
        /\ call.title_sheet_type = "normal"
        /\ IsTableN(call.row[1])
        /\ ret # NoRet /\ ret.exc = "")
           => IsTwoDigitCode(ret.id, call.row[1])
    /\ (/\ call.fn = "get_sheet_titles"
        /\ ret # NoRet /\ ret.exc = ""
        /\ \A i \in 1..Len(call.df_dict[1].df.rows) :
              IsTableN(call.df_dict[1].df.rows[i][1]))
           => /\ Len(ret.val) = Len(call.df_dict[1].df.rows)
              /\ \A i \in 1..Len(ret.val) :
                    IsTwoDigitCode(ret.val[i].id, call.df_dict[1].df.rows[i][1])


(***************************************************************************)
(* The title map extract_table_names makes of an index sheet.              *)
(***************************************************************************)
ExtractDone == call.fn = "extract_table_names" /\ ret # NoRet

\* the rows of the index sheet handed over
IndexSheetRows == call.df_dict[1].df.rows

\* the first cell is a table marker: it contains "Table" and is not "Table"
IsTableRow(row) == Contains(row[1].s, s_Table) /\ row[1].s # s_Table

\* the first cell is a recognized marker
IsMarkedRow(row) == IsTableRow(row) \/ Contains(row[1].s, s_Introduction)

HasMissingCell(row) == \E j \in 1..Len(row) : IsNa(row[j])

\* no two rows of the sheet have the same first cell
DistinctFirstCells ==
    \A i, j \in 1..Len(IndexSheetRows) :
        i # j => IndexSheetRows[i][1] # IndexSheetRows[j][1]

\* C21: the title map has an entry only for the rows whose first cell is a
\* recognized marker ("Table ..." other than "Table", or "Introduction"); a
\* row with neither gives no key, no None key in particular, and no number
\* of such rows makes the extraction raise.  Stated for the normal mode and
\* sheets without missing cells, whose marked rows differ.
C21_OnlyMarkedRows ==
    (/\ ExtractDone
     /\ call.kwargs.title_sheet_type = "normal"
     /\ IndexSheetRows # <<>>
     /\ \A i \in 1..Len(IndexSheetRows) : ~HasMissingCell(IndexSheetRows[i])
     /\ \A i, j \in 1..Len(IndexSheetRows) :
           (i # j /\ IsMarkedRow(IndexSheetRows[i]) /\ IsMarkedRow(IndexSheetRows[j]))
               => IndexSheetRows[i][1] # IndexSheetRows[j][1])
        => /\ ret.exc = ""
           /\ \A k \in 1..Len(ret.val) :
                 /\ ret.val[k].id # None
                 /\ \E i \in 1..Len(IndexSheetRows) :
                       /\ IsMarkedRow(IndexSheetRows[i])
                       /\ ret.val[k].name = IndexSheetRows[i][2]


(***************************************************************************)
(* A load in a title-sheet mode that is neither "normal" nor "wiki".       *)
(***************************************************************************)
\* C22: a load that reads its source in a title-sheet mode other than
\* "normal" and "wiki" raises an error and leaves the dict as it was: it
\* never completes with entries.
C22_UnknownModeRefused ==
    (IsLoad /\ last.fetched /\ last.kwargs.title_sheet_type \notin {"normal", "wiki"})
        => (last.exc # "" /\ store = last.before)



(***************************************************************************)
(* A load with the titles sheet named by the caller.                       *)
(***************************************************************************)
\* the workbook the last load read has a sheet under the key the caller named
OverrideSheetExists ==
    \E i \in 1..Len(Workbook(last.wb)) :
        Str(Workbook(last.wb)[i].key) = last.kwargs.titles_sheet_name

\* C24: a load that names the titles sheet itself (titles_sheet_name=<a
\* sheet of the workbook>) completes without an error, the titles being
\* taken from the sheet named.
C24_ExplicitTitlesSheetLoads ==
    (/\ IsLoad /\ last.fetched
     /\ last.kwargs.has_titles_sheet_name
     /\ OverrideSheetExists)
        => last.exc = ""



(***************************************************************************)
(* The rows of a normal index sheet that reach the title map.              *)
(***************************************************************************)
\* C25: in the normal mode the title map has an entry for every row of the
\* index sheet, among the rows without a missing cell, whose first cell
\* contains "Table" and is not "Table", wherever the first such row sits:
\* first, second, or below rows dropped for a missing cell.  Stated for the
\* sheets whose complete rows all carry a recognized marker and differ in it,
\* so that no row is left without a key and no key is repeated.
C25_EveryTableRowKept ==
    (/\ ExtractDone
     /\ call.kwargs.title_sheet_type = "normal"
     /\ \A i \in 1..Len(IndexSheetRows) :
           ~HasMissingCell(IndexSheetRows[i]) => IsMarkedRow(IndexSheetRows[i])
     /\ DistinctFirstCells)
        => \A i \in 1..Len(IndexSheetRows) :
              (IsTableRow(IndexSheetRows[i]) /\ ~HasMissingCell(IndexSheetRows[i]))
                  => /\ ret.exc = ""
                     /\ \E k \in 1..Len(ret.val) :
                           ret.val[k].name = IndexSheetRows[i][2]



(***************************************************************************)
(* The two DataFrameEntry classes as objects on their own: the entry of    *)
(* dfstore.py, which keeps its tables pickled, and the dataclass of        *)
(* datacore/df_entry.py the manager stores.  An object is made, time       *)
(* passes, and its methods are called and its attributes assigned.         *)
(***************************************************************************)
\* bytes: the empty bytes, bytes that are no pickle, and the pickle of an
\* object.  pickle.dumps never gives empty bytes; pickle.loads gives the
\* object back, and raises on bytes that are no pickle.
EmptyBytes == [bytes |-> "empty", obj |-> <<>>]
RawBytes == [bytes |-> "raw", obj |-> <<>>]
PickleDumps(obj) == [bytes |-> "pickle", obj |-> <<obj>>]
PickleLoads(b) ==
    CASE b.bytes = "pickle" -> Return(b.obj[1])
      [] b.bytes = "empty" -> Raise("EOFError")
      [] OTHER -> Raise("UnpicklingError")

IsBytes(v) == DOMAIN v = {"bytes", "obj"}
IsDataFrame(v) == DOMAIN v = {"columns", "rows"}

\* bool() of bytes
BytesTruthy(b) == b.bytes # "empty"

\* dfstore.DataFrameEntry.__init__; deepcopy of bytes gives the bytes
dfstore_DataFrameEntry(name, original_data, source_url, now) ==
    LET _original_data == IF IsBytes(original_data) THEN original_data
                          ELSE PickleDumps(original_data)
    IN  [cls |-> "dfstore",
         name |-> name,
         _original_data |-> _original_data,
         _working_data |-> _original_data,
         has_working_data |-> BytesTruthy(_original_data),
         last_modified |-> now,
         source_url |-> source_url]

\* datacore.DataFrameEntry(dataframe): the dataclass with its defaults, and
\* last_modified from datetime.now
datacore_DataFrameEntry(dataframe, now) ==
    [cls |-> "datacore",
     dataframe |-> dataframe,
     name |-> None,
     original_sheet_name |-> None,
     last_modified |-> now,
     tags |-> {}]

\* an assignment without the guard of __setattr__
SetAttrUnguarded(self, key, value) ==
    [exc |-> "", self |-> [self EXCEPT ![key] = value]]

\* dfstore.DataFrameEntry.__setattr__: _original_data is in __dict__ from
\* the first statement of __init__ on
__setattr__(self, key, value) ==
    IF key = "_original_data"
    THEN [exc |-> "AttributeError", self |-> self]
    ELSE [exc |-> "", self |-> [self EXCEPT ![key] = value]]

\* an assignment on the dataclass: object.__setattr__
dataclass_setattr(self, key, value) ==
    [exc |-> "", self |-> [self EXCEPT ![key] = value]]

load_working_data(self) ==
    IF self.has_working_data THEN PickleLoads(self._working_data)
    ELSE Raise("ValueError")

update_working_data(self, new_data, now) ==
    IF ~IsDataFrame(new_data) THEN [exc |-> "ValueError", self |-> self]
    ELSE [exc |-> "",
          self |-> [self EXCEPT !._working_data = PickleDumps(new_data),
                                !.last_modified = now]]

\* how far the clock runs
MaxClock == 2

EntryTables ==
    {Islands(s_01_01).df, Housing(s_01_02).df, [columns |-> <<>>, rows |-> <<>>]}

\* what an entry of dfstore is made of: a table, or bytes
OriginalDataPool ==
    EntryTables \cup {EmptyBytes, RawBytes, PickleDumps(Islands(s_01_01).df)}

\* what update_working_data is handed: a table, or something else
NewDataPool == EntryTables \cup {None, PickleDumps(Islands(s_01_01).df)}

\* the attributes assigned on an entry of dfstore, and the values
DfstoreAssignments ==
    {<<"_original_data", b>> : b \in {EmptyBytes, PickleDumps(Housing(s_01_02).df)}}
    \cup {<<"_working_data", b>> : b \in {EmptyBytes, PickleDumps(Housing(s_01_02).df)}}
    \cup {<<"has_working_data", b>> : b \in BOOLEAN}

\* the attributes assigned on an entry of the manager, and the values
DatacoreAssignments ==
    {<<"dataframe", df>> : df \in EntryTables}
    \cup {<<"name", Str(s_Titles)>>}

\* the record of a call on the entry: the entry before it, and the time
EntryCall(fn, args) ==
    [fn |-> fn, args |-> args, before |-> entry, now |-> clock]

InitEntry ==
    /\ store = <<>>
    /\ last = InitLast
    /\ nloads = 0
    /\ clock = 0
    /\ names_cache = NotCached
    /\ graph = NoGraph
    /\ ret = NoRet
    /\ \/ \E original_data \in OriginalDataPool :
            /\ entry = dfstore_DataFrameEntry(Str(s_Titles), original_data, None, 0)
            /\ call = [fn |-> "dfstore.DataFrameEntry", args |-> <<original_data>>,
                       before |-> NoEntry, now |-> 0]
       \/ \E dataframe \in EntryTables :
            /\ entry = datacore_DataFrameEntry(dataframe, 0)
            /\ call = [fn |-> "datacore.DataFrameEntry", args |-> <<dataframe>>,
                       before |-> NoEntry, now |-> 0]

\* time passes
Tick ==
    /\ clock < MaxClock
    /\ clock' = clock + 1
    /\ UNCHANGED <<store, last, nloads, call, ret, entry, names_cache, graph>>

UpdateWorkingData ==
    /\ entry.cls = "dfstore"
    /\ \E new_data \in NewDataPool :
         LET done == update_working_data(entry, new_data, clock)
         IN  /\ entry' = done.self
             /\ call' = EntryCall("update_working_data", <<new_data>>)
             /\ ret' = IF done.exc = "" THEN Return(None) ELSE Raise(done.exc)
    /\ UNCHANGED <<store, last, nloads, clock, names_cache, graph>>

LoadWorkingData ==
    /\ entry.cls = "dfstore"
    /\ call' = EntryCall("load_working_data", <<>>)
    /\ ret' = load_working_data(entry)
    /\ UNCHANGED <<store, last, nloads, entry, clock, names_cache, graph>>

\* entry.key = value on an entry of dfstore
DfstoreSetAttr ==
    /\ entry.cls = "dfstore"
    /\ \E kv \in DfstoreAssignments :
         LET done == __setattr__(entry, kv[1], kv[2])
         IN  /\ entry' = done.self
             /\ call' = EntryCall("__setattr__", kv)
             /\ ret' = IF done.exc = "" THEN Return(None) ELSE Raise(done.exc)
    /\ UNCHANGED <<store, last, nloads, clock, names_cache, graph>>

\* entry.key = value on an entry of the manager
DatacoreSetAttr ==
    /\ entry.cls = "datacore"
    /\ \E kv \in DatacoreAssignments :
         LET done == dataclass_setattr(entry, kv[1], kv[2])
         IN  /\ entry' = done.self
             /\ call' = EntryCall("__setattr__", kv)
             /\ ret' = Return(None)
    /\ UNCHANGED <<store, last, nloads, clock, names_cache, graph>>

NextEntry ==
    \/ Tick
    \/ UpdateWorkingData
    \/ LoadWorkingData
    \/ DfstoreSetAttr
    \/ DatacoreSetAttr

SpecEntry == InitEntry /\ [][NextEntry]_vars



(***************************************************************************)
(* Properties of the entry objects.                                        *)
(***************************************************************************)
\* a call has been made on the entry since it was constructed
EntryCalled == call.before.cls = entry.cls

\* the table data of an entry: the dataframe of the manager's entry, the
\* working data of the entry of dfstore
TableOf(e) == IF e.cls = "datacore" THEN e.dataframe ELSE e._working_data

\* C23: whenever the table data of an entry is replaced, last_modified is
\* the time of the replacement, whichever way the table is replaced: by an
\* assignment on the manager's entry as well as by update_working_data.
C23_ReplacementStamped ==
    (EntryCalled /\ TableOf(entry) # TableOf(call.before))
        => entry.last_modified = call.now

\* C27: the original data of an entry of dfstore is after every call what it
\* was before it (update_working_data, load_working_data, assignments), and
\* an assignment to _original_data raises AttributeError and leaves the
\* entry as it was.
C27_OriginalDataFrozen ==
    (EntryCalled /\ entry.cls = "dfstore")
        => /\ entry._original_data = call.before._original_data
           /\ (call.fn = "__setattr__" /\ call.args[1] = "_original_data")
                  => (ret.exc = "AttributeError" /\ entry = call.before)

\* an assignment to _original_data has been refused on an entry whose
\* working data had been replaced before
C27_Witness ==
    /\ EntryCalled /\ entry.cls = "dfstore"
    /\ call.fn = "__setattr__" /\ call.args[1] = "_original_data"
    /\ call.args[2] # entry._original_data
    /\ ret.exc = "AttributeError"
    /\ entry._working_data # entry._original_data
    /\ entry.last_modified > 0

\* has_working_data says whether the working data is non-empty
FlagMatchesWorkingData(e) == e.has_working_data <=> BytesTruthy(e._working_data)

\* C29: has_working_data is true exactly when the working data is
\* non-empty; so an update_working_data that succeeds on an entry where this
\* holds leaves an entry where it holds, and load_working_data on it returns
\* the table passed instead of raising.
C29_LoadAfterUpdate ==
    (/\ EntryCalled /\ entry.cls = "dfstore"
     /\ call.fn = "update_working_data" /\ ret.exc = ""
     /\ FlagMatchesWorkingData(call.before))
        => /\ FlagMatchesWorkingData(entry)
           /\ load_working_data(entry) = Return(call.args[1])



(***************************************************************************)
(* The manager with its cached dataframe_names: entries are set and        *)
(* deleted, workbooks are loaded, and the property is read.                *)
(***************************************************************************)
\* [df.name for df in self if df.name is not None]
NamesNow(d) ==
    LET names == [i \in 1..Len(d) |-> Iter(d)[i].name]
    IN  SelectSeq(names, LAMBDA name : name # None)

\* a property computed at every read
PropertyNotCached(d, cache) == [cached |-> TRUE, names |-> NamesNow(d)]

\* functools.cached_property: the first read computes the list and keeps it
\* in the instance's __dict__, and every later read returns what is kept
dataframe_names(d, cache) ==
    IF cache.cached THEN cache
    ELSE [cached |-> TRUE, names |-> NamesNow(d)]

\* del self[key]
DelItem(d, key) == SelectSeq(d, LAMBDA item : item.key # key)

\* the keys and entries set by hand
CacheKeys == {Num(4)}
CacheEntries ==
    {DataFrameEntry(Islands(s_01_01).df, Str(s_About), s_01_01, {}),
     DataFrameEntry(Islands(s_01_01).df, None, s_01_01, {})}

\* the workbooks loaded
CacheWorkbooks == {"scenario"}

InitCache ==
    /\ store = <<>>
    /\ last = InitLast
    /\ nloads = 0
    /\ call = NoCall
    /\ ret = NoRet
    /\ NoObjects

\* self.dataframe_names
ReadDataframeNames ==
    LET cache == dataframe_names(store, names_cache)
    IN  /\ names_cache' = cache
        /\ call' = [fn |-> "dataframe_names", nloads |-> nloads]
        /\ ret' = Return(cache.names)
        /\ UNCHANGED <<store, last, nloads, entry, clock, graph>>

\* self[key] = entry
SetEntry ==
    \E key \in CacheKeys, value \in CacheEntries :
        /\ store' = SetItem(store, key, value)
        /\ call' = [fn |-> "__setitem__", nloads |-> nloads]
        /\ ret' = Return(None)
        /\ UNCHANGED <<last, nloads, objects>>

\* del self[key]
DelEntry ==
    \E key \in Keys(store) :
        /\ store' = DelItem(store, key)
        /\ call' = [fn |-> "__delitem__", nloads |-> nloads]
        /\ ret' = Return(None)
        /\ UNCHANGED <<last, nloads, objects>>

\* load_from_excel of one of the workbooks, with the default keyword arguments
LoadWorkbook ==
    /\ nloads < MaxLoads
    /\ \E wb \in CacheWorkbooks, overwrite \in BOOLEAN :
         Finish("load_from_excel", IF LoadRefused(store, overwrite) THEN "" ELSE wb,
                overwrite, DefaultKwargs,
                Load(store, Workbook(wb), overwrite, DefaultKwargs))

NextCache == ReadDataframeNames \/ SetEntry \/ DelEntry \/ LoadWorkbook

SpecCache == InitCache /\ [][NextCache]_vars

\* a step that reads dataframe_names: every other step either leaves another
\* call on record or counts a load
IsReadStep == call'.fn = "dataframe_names" /\ nloads' = nloads

\* C26: once dataframe_names has been read, what is kept never changes and
\* every later read returns it, whatever has been set, deleted or loaded
\* since; the first read returns the names of the entries present at that
\* read, in the order of iteration, the names that are None left out.
C26_NamesReadOnce ==
    [][/\ names_cache.cached => names_cache' = names_cache
       /\ IsReadStep =>
             /\ names_cache'.cached
             /\ ret' = Return(names_cache'.names)
             /\ ~names_cache.cached => names_cache'.names = NamesNow(store)]_vars

\* a read after an overwrite load on a manager that held entries has
\* returned the names of the first read, which are no longer the names of
\* the entries
C26_Witness ==
    /\ call.fn = "dataframe_names"
    /\ call.nloads = nloads
    /\ ret = Return(names_cache.names)
    /\ names_cache.names # NamesNow(store)
    /\ names_cache.names # <<>>
    /\ last.op = "load_from_excel" /\ last.overwrite /\ last.exc = ""
    /\ last.before # <<>> /\ store # last.before



(***************************************************************************)
(* The SQL agent graph of create_sql_agent: the nodes run one after        *)
(* another along the edges, each appending its messages to the state; what *)
(* the models and the tools answer is not determined.                      *)
(***************************************************************************)
START == "__start__"
END == "__end__"

\* how many messages a run may hold before a node runs
MaxMessages == 10

\* a message: its class, whether its content starts with "Error:", and the
\* names of its tool calls (only an AIMessage has the attribute)
AIMessage(error, tool_calls) ==
    [type |-> "ai", error |-> error, tool_calls |-> tool_calls]
ToolMessage(error) == [type |-> "tool", error |-> error, tool_calls |-> <<>>]
HumanMessage == [type |-> "human", error |-> FALSE, tool_calls |-> <<>>]

\* itertools.pairwise
Pairwise(nodes) == {<<nodes[i], nodes[i + 1]>> : i \in 1..(Len(nodes) - 1)}

\* SimpleGraphBuilder.__init__: the nodes are connected in the order given,
\* from START, and to END if the build is complete
SimpleGraphBuilder(nodes, complete_build) ==
    Pairwise(<<START>> \o nodes \o (IF complete_build THEN <<END>> ELSE <<>>))

BaseNodes ==
    <<"first_tool_call", "list_tables_tool", "model_get_schema", "get_schema_tool">>

\* the edges of the graph that are not conditional
Edges ==
    SimpleGraphBuilder(BaseNodes, FALSE)
    \cup {<<"get_schema_tool", "query_gen_node">>,
          <<"correct_query", "execute_query">>,
          <<"execute_query", "query_gen_node">>}

Target(origin) == CHOOSE target \in {e[2] : e \in Edges} : <<origin, target>> \in Edges

\* nothing is said about the tool calls
CatchNothing(message, required_tool) == <<message>>

\* catch_hallucinations: the message, and a ToolMessage made of
\* WRONG_TOOL_MESSAGE ("Error: The wrong tool was called ...") for every
\* tool call that does not name the required tool
catch_hallucinations(message, required_tool) ==
    <<message>> \o
    [i \in 1..Len(SelectSeq(message.tool_calls,
                            LAMBDA name : name # required_tool)) |->
        ToolMessage(TRUE)]

\* should_continue: getattr(last_message, "tool_calls", None) is the list of
\* an AIMessage and None for a ToolMessage
should_continue(messages) ==
    LET last_message == messages[Len(messages)]
    IN  IF last_message.type = "ai" /\ last_message.tool_calls # <<>> THEN END
        ELSE IF last_message.error THEN "query_gen_node"
        ELSE "correct_query"

\* a ToolNode: a ToolMessage for every tool call of the last message, each
\* the tool's answer or, from the fallback, an "Error: ..." message
ToolNodeMessages(messages, error) ==
    [i \in 1..Len(messages[Len(messages)].tool_calls) |-> ToolMessage(error)]

\* what the model bound to SubmitFinalAnswer may call
QueryGenToolCalls ==
    {<<>>, <<"SubmitFinalAnswer">>, <<"sql_db_query">>,
     <<"SubmitFinalAnswer", "sql_db_query">>, <<"sql_db_query", "SubmitFinalAnswer">>,
     <<"SubmitFinalAnswer", "SubmitFinalAnswer">>}

\* a node has run: its messages are added and the run moves on
GraphStep(node, new_messages, target) ==
    /\ graph.node = node
    /\ Len(graph.messages) < MaxMessages
    /\ graph' = [node |-> target, prev |-> node,
                 messages |-> graph.messages \o new_messages]
    /\ UNCHANGED <<store, last, nloads, call, ret, entry, clock, names_cache>>

\* the run starts with the question, at the node START leads to
InitGraph ==
    /\ store = <<>>
    /\ last = InitLast
    /\ nloads = 0
    /\ call = NoCall
    /\ ret = NoRet
    /\ entry = NoEntry
    /\ clock = 0
    /\ names_cache = NotCached
    /\ graph = [node |-> Target(START), prev |-> START, messages |-> <<HumanMessage>>]

\* create_tool_call("sql_db_list_tables")
first_tool_call ==
    GraphStep("first_tool_call", <<AIMessage(FALSE, <<"sql_db_list_tables">>)>>,
              Target("first_tool_call"))

list_tables_tool ==
    \E error \in BOOLEAN :
        GraphStep("list_tables_tool", ToolNodeMessages(graph.messages, error),
                  Target("list_tables_tool"))

\* get_schema_agent.invoke: the model calls sql_db_schema, or no tool
model_get_schema ==
    \E tool_calls \in {<<>>, <<"sql_db_schema">>} :
        GraphStep("model_get_schema", <<AIMessage(FALSE, tool_calls)>>,
                  Target("model_get_schema"))

get_schema_tool ==
    \E error \in BOOLEAN :
        GraphStep("get_schema_tool", ToolNodeMessages(graph.messages, error),
                  Target("get_schema_tool"))

\* query_gen_agent.invoke, catch_hallucinations, and the conditional edge
query_gen_node ==
    \E error \in BOOLEAN, tool_calls \in QueryGenToolCalls :
        LET new_messages ==
                catch_hallucinations(AIMessage(error, tool_calls), "SubmitFinalAnswer")
        IN  GraphStep("query_gen_node", new_messages,
                      should_continue(graph.messages \o new_messages))

\* query_check_agent.invoke: the one tool is required
correct_query ==
    GraphStep("correct_query", <<AIMessage(FALSE, <<"sql_db_query_checker">>)>>,
              Target("correct_query"))

execute_query ==
    \E error \in BOOLEAN :
        GraphStep("execute_query", ToolNodeMessages(graph.messages, error),
                  Target("execute_query"))

NextGraph ==
    \/ first_tool_call
    \/ list_tables_tool
    \/ model_get_schema
    \/ get_schema_tool
    \/ query_gen_node
    \/ correct_query
    \/ execute_query

SpecGraph == InitGraph /\ [][NextGraph]_vars



\* the last message of the run, and the message the model generated last
LastMessage == graph.messages[Len(graph.messages)]
LastGenerated ==
    graph.messages[CHOOSE i \in 1..Len(graph.messages) :
                      /\ graph.messages[i].type = "ai"
                      /\ \A j \in (i + 1)..Len(graph.messages) :
                            graph.messages[j].type # "ai"]

OnlySubmitFinalAnswer(message) ==
    /\ message.tool_calls # <<>>
    /\ \A i \in 1..Len(message.tool_calls) : message.tool_calls[i] = "SubmitFinalAnswer"

CallsAnotherTool(message) ==
    \E i \in 1..Len(message.tool_calls) : message.tool_calls[i] # "SubmitFinalAnswer"

\* C28: a run is at END only directly after query_gen_node, and only when
\* the message generated there has a tool call and all its tool calls name
\* SubmitFinalAnswer; if a tool call names another tool, the run ends the
\* node with an "Error:" tool message as its last message and query_gen_node
\* as its next node; a message without tool calls leads to correct_query,
\* then execute_query, then query_gen_node, unless its content starts with
\* "Error:", which leads to query_gen_node at once.
C28_EndOnlyOnFinalAnswer ==
    /\ graph.node = END => graph.prev = "query_gen_node"
    /\ graph.prev = "query_gen_node" =>
          /\ graph.node = END <=> OnlySubmitFinalAnswer(LastGenerated)
          /\ CallsAnotherTool(LastGenerated) =>
                /\ LastMessage = ToolMessage(TRUE)
                /\ graph.node = "query_gen_node"
          /\ LastGenerated.tool_calls = <<>> =>
                graph.node = IF LastGenerated.error THEN "query_gen_node"
                             ELSE "correct_query"
    /\ graph.node = "correct_query" => graph.prev = "query_gen_node"
    /\ graph.prev = "correct_query" => graph.node = "execute_query"
    /\ graph.node = "execute_query" => graph.prev = "correct_query"
    /\ graph.prev = "execute_query" => graph.node = "query_gen_node"

\* a run at END that went through correct_query and execute_query once and
\* was sent back to query_gen_node once for calling another tool
C28_Witness ==
    /\ graph.node = END
    /\ graph.prev = "query_gen_node"
    /\ OnlySubmitFinalAnswer(LastMessage)
    /\ \E i \in 1..Len(graph.messages) :
          graph.messages[i].tool_calls = <<"sql_db_query_checker">>
    /\ \E i \in 1..(Len(graph.messages) - 1) :
          /\ CallsAnotherTool(graph.messages[i])
          /\ "SubmitFinalAnswer" \in {graph.messages[i].tool_calls[k] :
                                         k \in 1..Len(graph.messages[i].tool_calls)}
          /\ graph.messages[i + 1] = ToolMessage(TRUE)



(***************************************************************************)
(* What categorize_metadata leaves of the set it is handed.                *)
(***************************************************************************)
\* C30: categorize_metadata returns for every finite set of strings, and on
\* return the caller's set is empty, each of its items being in the record
\* returned: a source line by its text in "source", any other line as it
\* is in "notes", and nothing else.
C30_ArgumentConsumed ==
    (CatDone /\ ret.exc = "")
        => /\ ret.metadata_set = {}
           /\ Len(ret.notes) + Len(ret.source.v) = Cardinality(call.metadata_set)
           /\ \A item \in call.metadata_set :
                 IF StartsWith(Lower(item.s), s_source)
                 THEN \E i \in 1..Len(ret.source.v) : ret.source.v[i] = SourceText(item.s)
                 ELSE \E i \in 1..Len(ret.notes) : ret.notes[i] = item.s

\* a set of a source line and two other lines has been consumed
C30_Witness ==
    /\ CatDone /\ ret.exc = ""
    /\ Cardinality(call.metadata_set) = 3
    /\ ret.metadata_set = {}
    /\ Len(ret.notes) = 2
    /\ ret.source.t = "str"

====
